---- MODULE Spec2Model ----
(***************************************************************************)
(* Model of the capture-test orchestration engine:                         *)
(*   services/agent/test_manager.py   TestExecutionManager (the facade)    *)
(*   services/agent/run_executor.py   RunExecutor (_runs, start/stop/abort)*)
(*   services/agent/tab_manager.py    TabManager (_tabs, logs)             *)
(*   services/agent/process_manager.py  watchers, termination protocol     *)
(*   services/agent/capture_manager.py  write_capture_metadata (journal)   *)
(*                                                                         *)
(* Scheduling.  Everything runs on one asyncio event loop, so a coroutine  *)
(* runs without interruption between two points where it really suspends.  *)
(* The asyncio locks of the engine are only ever held over code that does  *)
(* not suspend (_save_state_locked and write_capture_metadata do blocking  *)
(* file I/O), so they are never contended and acquiring one never          *)
(* suspends.  The suspension points of the engine are therefore:           *)
(*   - asyncio.create_subprocess_exec        (run_executor.py:185)         *)
(*   - wait_for(shield(watcher), 1)          (run_executor.py:320)         *)
(*   - wait_for(process.wait(), 5 / 3)       (process_manager.py:95, 117)  *)
(*   - asyncio.sleep(0.1)                    (run_executor.py:376)         *)
(*   - readline() / process.wait() in a watcher (process_manager.py:146,164)*)
(* Each action below is the code that runs from one suspension point to    *)
(* the next.                                                                *)
(***************************************************************************)
EXTENDS Integers, Sequences, FiniteSets, TLC

\* ---------------------------------------------------------------- bounds
MaxTabs == 1
MaxStarts == 2
MaxStops == 1
MaxIfaces == 2
MaxLogEntries == 2
MaxOutput == 1
MaxProcs == 3
MaxSubs == 2
QueueMax == 2
MaxDiskTabs == 2
MaxPairTabs == 2
MaxSchedRuns == 2

TabIds == 1..MaxTabs
StartIds == 1..MaxStarts
StopIds == 1..MaxStops
SubIds == 1..MaxSubs
Ifaces == {"eth0", "eth1"}
\* The interface lists a profile can resolve to (_select_interfaces keeps
\* duplicates); lists are taken up to renaming, the first name being eth0.
Profiles == {p \in UNION {[1..n -> Ifaces] : n \in 1..MaxIfaces} : p[1] = "eth0"}
ProcIds == StartIds \X (1..MaxIfaces)
\* Exit codes of a capture process: 0 is clean, 1 stands for any other code.
ExitCodes == {0, 1}
\* Python's None where an Optional[int] exit code is expected.
None == -1
NoProc == <<0, 0>>

VARIABLES
    tabs,      \* TabManager._tabs: tab id -> Tab
    nextTab,   \* number of tab ids handed out so far (uuid4: never reused)
    runs,      \* RunExecutor._runs: tab id -> run id of the RunningTest
    procs,     \* the OS capture processes, by <<run id, interface index>>
    task,      \* InterfaceProcess.task: the watcher recorded for a process
    watch,     \* the watcher tasks' states
    journal,   \* capture metadata journal: rows per capture id and event
    st,        \* the startTest calls
    sp,        \* the stopTest calls
    ab,        \* the abortAll call
    nout,      \* output lines read by watchers so far
    fin,       \* history: writes of finished_utc per Run object
    ann,       \* history: status broadcasts carrying a terminal status, per Run object
    calls,     \* history: invocations of the exit handler per process
    queues,    \* TestExecutionManager._listeners: subscriber -> its event queue
    seen,      \* history: per subscriber and Tab, the last log sequence number delivered
    disk,      \* tabs.json as found by TabManager.__init__
    broken,    \* environment: the capture directory cannot be written (open() raises OSError)
    flt,       \* a profile's filter settings and the BPF filter built from them
    timer,     \* the duration timers: one per startTest call
    store,     \* TabManager._lock and tabs.json against the Tabs in memory
    poll,      \* a client polling getLogs: its afterSeq and the entries it has received
    sched      \* ScheduleManager._schedules: the one schedule, and the executions of it

vars == <<tabs, nextTab, runs, procs, task, watch, journal, st, sp, ab, nout, fin, ann,
          calls, queues, seen, disk, broken, flt, timer, store, poll, sched>>

\* ---------------------------------------------------------------- BPF filter
\* A filter string is modelled as the sequence of its pieces: the literals of
\* the code and the values formatted into them; " and " and " or " are the
\* pieces "and" and "or".

RECURSIVE Join(_, _)
\* sep.join(parts), each part being a sequence of pieces
Join(parts, sep) ==
    IF parts = <<>> THEN <<>>
    ELSE IF Len(parts) = 1 THEN parts[1]
    ELSE parts[1] \o <<sep>> \o Join(Tail(parts), sep)

\* str.strip(), str.upper(), str.lower() on the strings used as settings
Strip(x) == IF x = " " THEN "" ELSE x
Upper(x) == CASE x = "Udp" -> "UDP" [] x = "tcp" -> "TCP" [] x = "sctp" -> "SCTP" [] OTHER -> x
Lower(x) == CASE x = "Udp" -> "udp" [] x = "PTP" -> "ptp" [] OTHER -> x

\* protocol_map.get(key): "" stands for None
ProtocolMap(key) ==
    CASE key = "tcp" -> "tcp" [] key = "udp" -> "udp" [] key = "icmp" -> "icmp"
      [] key = "arp" -> "arp" [] key = "ip" -> "ip" [] key = "ip6" -> "ip6"
      [] key = "TCP" -> "tcp" [] key = "UDP" -> "udp" [] key = "ICMP" -> "icmp"
      [] key = "ARP" -> "arp" [] key = "PTP" -> "udp port 319 or udp port 320"
      [] key = "PROFINET" -> "ether proto 0x8892"
      [] OTHER -> ""

RECURSIVE Translate(_)
\* the loop over protocols_raw
Translate(items) ==
    IF items = <<>> THEN <<>>
    ELSE LET key == Strip(items[1])
             mapped == IF ProtocolMap(key) # "" THEN ProtocolMap(key) ELSE ProtocolMap(Upper(key))
         IN (IF mapped # "" THEN <<<<mapped>>>>
             ELSE IF key # "" THEN <<<<Lower(key)>>>> ELSE <<>>) \o Translate(Tail(items))

\* int(value): None for a missing or non-numeric value
ParseInt(x) == CASE x = "0" -> 0 [] x = "3" -> 3 [] x = "5" -> 5 [] x = "9" -> 9 [] OTHER -> None
\* the decimal digits of the numbers that are formatted into a filter
IntStr(n) == CASE n = 5 -> "5" [] n = 24576 -> "24576" [] n = 0 -> "0" [] OTHER -> "?"

\* the filter of the TSN flags as it was before the correction
TsnFilters_AndAll(sync, ptp, vlan) ==
    (IF sync THEN <<<<"ether proto 0x88f7">>>> ELSE <<>>)
    \o (IF ptp THEN <<<<"(udp port 319 or udp port 320)">>>> ELSE <<>>)
    \o (IF vlan THEN <<<<"vlan">>>> ELSE <<>>)

\* build_bpf_filter: the TSN-specific filters
TsnFilters(sync, ptp, vlan) ==
    IF sync /\ ptp
    THEN IF vlan THEN <<<<"(vlan and ether proto 0x88f7)">>>>
         ELSE <<<<"(ether proto 0x88f7 or (udp port 319 or udp port 320))">>>>
    ELSE IF sync
    THEN IF vlan THEN <<<<"(vlan and ether proto 0x88f7)">>>>
         ELSE <<<<"ether proto 0x88f7">>>>
    ELSE IF ptp THEN <<<<"(udp port 319 or udp port 320)">>>>
    ELSE IF vlan THEN <<<<"vlan">>>>
    ELSE <<>>

\* build_bpf_filter(settings)
BuildBpfFilter(g) ==
    LET translated == Translate(g.filterProtocols)
        protocols == IF translated # <<>>
                     THEN <<<<"(">> \o Join(translated, "or") \o <<")">>>> ELSE <<>>
        host == IF Strip(g.filterHosts) # "" THEN <<<<"host", Strip(g.filterHosts)>>>> ELSE <<>>
        port == IF Strip(g.filterPorts) # "" THEN <<<<"port", Strip(g.filterPorts)>>>> ELSE <<>>
        vlan_int == ParseInt(g.filterVlanId)
        vlan == IF vlan_int > 0 THEN <<<<"vlan", IntStr(vlan_int)>>>> ELSE <<>>
        tsn == TsnFilters(g.captureTsnSync \/ g.tsn8021as, g.capturePtp \/ g.ptpStatus,
                          g.captureVlanTagged \/ g.qbuPreemption)
        prio == ParseInt(g.tsnPriorityFilter)
        priority == IF prio >= 0 /\ prio <= 7
                    THEN <<<<"vlan and ether[14:2] & 0xe000 =", IntStr(prio * 8192)>>>> ELSE <<>>
        custom == IF Strip(g.bpfFilter) # ""
                  THEN <<<<"(", Strip(g.bpfFilter), ")">>>> ELSE <<>>
    IN Join(protocols \o host \o port \o vlan \o tsn \o priority \o custom, "and")

\* the filter settings of a profile: the three TSN flags with their legacy
\* names, and the other filter settings ("" where the key is missing)
Settings ==
    [captureTsnSync : BOOLEAN, tsn8021as : BOOLEAN,
     capturePtp : BOOLEAN, ptpStatus : BOOLEAN,
     captureVlanTagged : BOOLEAN, qbuPreemption : BOOLEAN,
     filterProtocols : {<<>>, <<"tcp">>, <<"PTP", "Udp">>, <<"sctp", " ">>},
     filterHosts : {"", " ", "10.0.0.1"},
     filterPorts : {"", "80"},
     filterVlanId : {"", "0", "5", "x"},
     tsnPriorityFilter : {"", "3", "9"},
     bpfFilter : {"", "tcp port 22"}]

NoFilter ==
    [settings |-> [captureTsnSync |-> FALSE, tsn8021as |-> FALSE, capturePtp |-> FALSE,
                   ptpStatus |-> FALSE, captureVlanTagged |-> FALSE, qbuPreemption |-> FALSE,
                   filterProtocols |-> <<>>, filterHosts |-> "", filterPorts |-> "",
                   filterVlanId |-> "", tsnPriorityFilter |-> "", bpfFilter |-> ""],
     built |-> FALSE, result |-> <<>>]
\* ---------------------------------------------------------------- data model
NoRun == [owner |-> 0, id |-> 0, finished |-> FALSE, exit_codes |-> <<>>, error |-> FALSE]

\* Run(id="", ...) created when the tab is marked "starting"
PlaceholderRun(r) == [owner |-> r, id |-> 0, finished |-> FALSE, exit_codes |-> <<>>, error |-> FALSE]

\* Run(id=run_id, ...) created when the tab is marked "running"
RealRun(r) == [owner |-> r, id |-> r, finished |-> FALSE, exit_codes |-> <<>>, error |-> FALSE]

\* identity of a Run object: each start call creates two (placeholder, real)
RunKey(run) == IF run.owner = 0 THEN 0 ELSE 2 * run.owner - (IF run.id = 0 THEN 1 ELSE 0)
RunKeys == 0..(2 * MaxStarts)

NewTab == [status |-> "idle", run |-> NoRun, log_seq |-> 0, logs |-> <<>>]

NewProc == [st |-> "none", rc |-> None, term |-> FALSE, kill |-> FALSE]

NIf(r) == Len(st[r].ifs)
RECURSIVE Planned(_)
\* the interfaces of the start calls made so far
Planned(r) == IF r = 0 THEN 0 ELSE NIf(r) + Planned(r - 1)
ProcsOf(r) == [i \in 1..NIf(r) |-> <<r, i>>]
IfaceOf(p) == st[p[1]].ifs[p[2]]

\* The engine state that the code of one step reads and writes in sequence.
Cur == [tabs |-> tabs, runs |-> runs, procs |-> procs, task |-> task, watch |-> watch,
        journal |-> journal, fin |-> fin, ann |-> ann, calls |-> calls, queues |-> queues,
        broken |-> broken, lock |-> store.lock, dirty |-> store.dirty, bare |-> store.bare]

Commit(s) ==
    /\ tabs' = s.tabs
    /\ runs' = s.runs
    /\ procs' = s.procs
    /\ task' = s.task
    /\ watch' = s.watch
    /\ journal' = s.journal
    /\ fin' = s.fin
    /\ ann' = s.ann
    /\ calls' = s.calls
    /\ queues' = s.queues
    /\ broken' = s.broken
    /\ store' = [lock |-> s.lock, dirty |-> s.dirty, bare |-> s.bare]

\* dict.pop(key, None)
Pop(f, k) == [x \in DOMAIN f \ {k} |-> f[x]]
\* dict[key] = value
Put(f, k, v) == [x \in DOMAIN f \cup {k} |-> IF x = k THEN v ELSE f[x]]

\* ---------------------------------------------------------------- events
\* an event as a subscriber sees it: its type, the Tab and, for a log entry,
\* the entry's sequence number
Event(type, t, seq) == [type |-> type, tab |-> t, seq |-> seq]

PutNowait_Front(q, ev) == IF Len(q) >= QueueMax THEN q ELSE <<ev>> \o q

\* queue.put_nowait(event): asyncio.QueueFull when the queue holds maxsize events
PutNowait(q, ev) == IF Len(q) >= QueueMax THEN q ELSE Append(q, ev)

Broadcast_StopAtFull(s, ev) ==
    IF \E x \in DOMAIN s.queues : Len(s.queues[x]) >= QueueMax THEN s
    ELSE [s EXCEPT !.queues = [x \in DOMAIN @ |-> Append(@[x], ev)]]

\* TestExecutionManager._broadcast(event)
Broadcast(s, ev) == [s EXCEPT !.queues = [x \in DOMAIN @ |-> PutNowait(@[x], ev)]]

\* ---------------------------------------------------------------- tab store
\* the lock is free, tabs.json holds the Tabs as they are in memory, and no
\* status or Run has been written without the lock
Clean == [lock |-> FALSE, dirty |-> FALSE, bare |-> FALSE]

\* async with self._lock: entering and leaving (TabManager._lock)
Acquire(s) == [s EXCEPT !.lock = TRUE]
Release(s) == [s EXCEPT !.lock = FALSE]

\* _save_state_locked: the snapshot of every Tab replaces tabs.json
SaveStateLocked(s) == [s EXCEPT !.dirty = FALSE]

\* TabManager.save_state
SaveTabs(s) == Release(SaveStateLocked(Acquire(s)))

\* an assignment to tab.status or tab.run, or to a field of tab.run: the Tab in
\* memory now differs from tabs.json; the history notes a write without the lock
Touch(s) == [s EXCEPT !.dirty = TRUE, !.bare = @ \/ ~s.lock]

DequeAppend_NoEvict(q, e) == Append(q, e)

\* deque(maxlen=max_log_entries).append(entry)
DequeAppend(q, e) ==
    LET a == Append(q, e)
    IN IF Len(a) > MaxLogEntries THEN SubSeq(a, Len(a) - MaxLogEntries + 1, Len(a)) ELSE a

\* TabManager.append_log(tab_id, message): the store with the entry appended
StoreLog(s, t, msg) ==
    LET tab == s.tabs[t]
        seq == tab.log_seq + 1
        s1 == [Acquire(s) EXCEPT !.tabs[t] = [tab EXCEPT !.log_seq = seq,
                                                         !.logs = DequeAppend(tab.logs, [seq |-> seq, msg |-> msg])]]
    IN Release(SaveStateLocked(s1))

\* TestExecutionManager._append_log: the entry is stored, then the log_entry
\* event and the Tab's snapshot are broadcast
AppendLog(s, t, msg) ==
    IF t \notin DOMAIN s.tabs THEN s
    ELSE LET s1 == StoreLog(s, t, msg)
             s2 == Broadcast(s1, Event("log_entry", t, s1.tabs[t].log_seq))
         IN Broadcast(s2, Event("tab_updated", t, 0))

\* TabManager.update_tab_status(tab_id, status, run=run, save=True)
UpdateTabStatus(s, t, status, run) ==
    IF t \notin DOMAIN s.tabs THEN s
    ELSE LET s1 == Touch([Acquire(s) EXCEPT !.tabs[t] = [@ EXCEPT !.status = status, !.run = run]])
         IN Release(SaveStateLocked(s1))

Terminal == {"completed", "failed"}

\* _broadcast({"type": "tab_updated", "tab": snapshot}) after a change of the
\* tab's status or Run; the history counts those carrying a terminal status.
BroadcastTab(s, t) ==
    IF t \notin DOMAIN s.tabs THEN s
    ELSE LET s1 == Broadcast(s, Event("tab_updated", t, 0))
         IN IF s.tabs[t].status \in Terminal
            THEN [s1 EXCEPT !.ann[RunKey(s.tabs[t].run)] = @ + 1]
            ELSE s1

\* ---------------------------------------------------------------- journal
\* write_capture_metadata opens the journal files without a try: with the
\* capture directory unwritable it raises OSError and writes nothing
JournalFails(s) == s.broken

\* write_capture_metadata(capture_dir, {"event": ev, "capture_id": ...})
WriteCaptureMetadata(s, p, ev) ==
    IF ev = "start" THEN [s EXCEPT !.journal[p].start = @ + 1]
    ELSE [s EXCEPT !.journal[p].stop = @ + 1]

RECURSIVE WriteStopRows(_, _, _)
\* for iproc in processes: write_capture_metadata(... "stop" ...)
WriteStopRows(s, ps, i) ==
    IF i > Len(ps) THEN s
    ELSE WriteStopRows(WriteCaptureMetadata(s, ps[i], "stop"), ps, i + 1)

\* ---------------------------------------------------------------- run executor
\* a start_test that skipped the "already running?" test
IsRunning_Never(s, t) == FALSE

\* RunExecutor.is_running
IsRunning(s, t) == t \in DOMAIN s.runs

\* RunExecutor.get_running_tab_ids
GetRunningTabIds(s) == DOMAIN s.runs

\* a remove_run that forgets every Run
RemoveRun_All(s, t) == [s EXCEPT !.runs = <<>>]

\* RunExecutor.remove_run
RemoveRun(s, t) == [s EXCEPT !.runs = Pop(@, t)]

\* iproc.process.returncode for the processes of a RunningTest
ReturnCodes(s, ps) == [i \in 1..Len(ps) |-> s.procs[ps[i]].rc]

\* RunExecutor.check_all_processes_done
CheckAllProcessesDone(s, t) ==
    IF t \notin DOMAIN s.runs THEN [all_done |-> FALSE, exit_codes |-> <<>>]
    ELSE LET ps == ProcsOf(s.runs[t])
         IN [all_done |-> \A i \in 1..Len(ps) : s.procs[ps[i]].rc # None,
             exit_codes |-> ReturnCodes(s, ps)]

\* process.kill() / process.terminate(): a process whose exit has been
\* collected raises ProcessLookupError, which every caller swallows
Signal(s, p, sig) ==
    IF s.procs[p].st # "alive" THEN s
    ELSE IF sig = "KILL" THEN [s EXCEPT !.procs[p].kill = TRUE]
    ELSE [s EXCEPT !.procs[p].term = TRUE]

RECURSIVE SignalAll(_, _, _, _)
SignalAll(s, ps, i, sig) ==
    IF i > Len(ps) THEN s
    ELSE SignalAll(Signal(s, ps[i], sig), ps, i + 1, sig)

\* RunExecutor._cleanup_started_processes(interface_processes)
CleanupStartedProcesses(s, ps) == SignalAll(s, ps, 1, "KILL")

\* a stop that cancelled no watcher
CancelWatchers_None(s, ps, i) == s

\* task.cancel() for every iproc whose task is set and not done
RECURSIVE CancelWatchers(_, _, _)
CancelWatchers(s, ps, i) ==
    IF i > Len(ps) THEN s
    ELSE LET w == s.task[ps[i]]
             s1 == IF w # NoProc /\ s.watch[w] = "waiting"
                   THEN [s EXCEPT !.watch[w] = "cancelled"]
                   ELSE s
         IN CancelWatchers(s1, ps, i + 1)

\* some iproc has a task that is not done yet: wait_for(shield(task)) suspends
PendingWatcher(s, ps) ==
    \E i \in 1..Len(ps) : s.task[ps[i]] # NoProc /\ s.watch[s.task[ps[i]]] = "waiting"

\* RunExecutor.set_watcher_task: the first iproc of the registered run with
\* that interface name gets the task
SetWatcherTask(s, t, iface, w) ==
    IF t \notin DOMAIN s.runs THEN s
    ELSE LET ps == ProcsOf(s.runs[t])
             hit == {i \in 1..Len(ps) : IfaceOf(ps[i]) = iface}
         IN IF hit = {} THEN s
            ELSE LET i == CHOOSE j \in hit : \A k \in hit : j <= k
                 IN [s EXCEPT !.task[ps[i]] = w]

\* ---------------------------------------------------------------- facade
\* any(code and code != 0 for code in exit_codes)
AnyFailed(codes) == \E i \in 1..Len(codes) : codes[i] # None /\ codes[i] # 0

StatusFor(error, codes) ==
    IF error THEN "failed"
    ELSE IF AnyFailed(codes) THEN "failed"
    ELSE "completed"

\* an exit handler that finalizes whatever Run the Tab has
MayFinalizeOnExit_AnyRun(s, t, r) ==
    /\ t \in DOMAIN s.tabs
    /\ s.tabs[t].run.owner # 0
    /\ ~s.tabs[t].run.finished

\* the guards of _handle_interface_process_exit before it finalizes
MayFinalizeOnExit(s, t, r) ==
    /\ t \in DOMAIN s.tabs
    /\ s.tabs[t].run.owner # 0
    /\ s.tabs[t].run.id = r
    /\ ~s.tabs[t].run.finished

\* TestExecutionManager._handle_interface_process_exit
HandleInterfaceProcessExit(s, t, r, p, error) ==
    LET s0 == [s EXCEPT !.calls[p] = @ + 1]
        s1 == WriteCaptureMetadata(s0, p, "stop")
        s2 == AppendLog(s1, t, "exited")
        done == CheckAllProcessesDone(s2, t)
    IN IF ~done.all_done THEN s2
       ELSE IF ~MayFinalizeOnExit(s2, t, r) THEN s2
       ELSE LET run == [s2.tabs[t].run EXCEPT !.finished = TRUE,
                                              !.exit_codes = done.exit_codes,
                                              !.error = error]
                s3 == Touch([s2 EXCEPT !.tabs[t].run = run,
                                       !.tabs[t].status = StatusFor(error, done.exit_codes),
                                       !.fin[RunKey(run)] = @ + 1])
                s4 == SaveTabs(RemoveRun(s3, t))
                s5 == BroadcastTab(s4, t)
            IN AppendLog(s5, t, "run_finished")

\* a _mark_run_failed that logs nothing
MarkRunFailed_Silent(s, t, run_id) ==
    IF t \notin DOMAIN s.tabs THEN s
    ELSE IF s.tabs[t].run.owner = 0 \/ (run_id # 0 /\ s.tabs[t].run.id # run_id) THEN s
    ELSE LET s2 == RemoveRun(s, t)
             run == [s2.tabs[t].run EXCEPT !.finished = TRUE, !.exit_codes = <<None>>, !.error = TRUE]
             s3 == Touch([s2 EXCEPT !.tabs[t].run = run, !.tabs[t].status = "failed",
                                    !.fin[RunKey(run)] = @ + 1])
         IN BroadcastTab(SaveTabs(s3), t)

\* TestExecutionManager._mark_run_failed(tab_id, run_id, message)
MarkRunFailed(s, t, run_id) ==
    LET s1 == AppendLog(s, t, "start_failed")
    IN IF t \notin DOMAIN s1.tabs THEN s1
       ELSE IF s1.tabs[t].run.owner = 0 \/ (run_id # 0 /\ s1.tabs[t].run.id # run_id) THEN s1
       ELSE LET s2 == RemoveRun(s1, t)
                run == [s2.tabs[t].run EXCEPT !.finished = TRUE,
                                              !.exit_codes = <<None>>,
                                              !.error = TRUE]
                s3 == Touch([s2 EXCEPT !.tabs[t].run = run,
                                       !.tabs[t].status = "failed",
                                       !.fin[RunKey(run)] = @ + 1])
            IN BroadcastTab(SaveTabs(s3), t)

\* the tail of TestExecutionManager.stop_test once the executor has stopped the run
FinalizeOnStop(s, t, codes) ==
    LET run == s.tabs[t].run
        s1 == IF run.owner # 0 /\ ~run.finished
              THEN SaveTabs(Touch([s EXCEPT !.tabs[t].run = [run EXCEPT !.finished = TRUE,
                                                                        !.exit_codes = codes],
                                               !.tabs[t].status = StatusFor(FALSE, codes),
                                               !.fin[RunKey(run)] = @ + 1]))
              ELSE s
    IN BroadcastTab(s1, t)

RECURSIVE AppendLogs(_, _, _, _)
\* n log lines of the same kind
AppendLogs(s, t, msg, n) ==
    IF n = 0 THEN s ELSE AppendLogs(AppendLog(s, t, msg), t, msg, n - 1)

RECURSIVE CreateWatchers(_, _, _, _)
\* for iproc in interface_processes: create_task(_watch_and_handle_exit(...));
\* set_watcher_task(tab_id, iproc.interface, watcher)
CreateWatchers(s, t, r, i) ==
    IF i > NIf(r) THEN s
    ELSE LET s1 == [s EXCEPT !.watch[<<r, i>>] = "waiting"]
         IN CreateWatchers(SetWatcherTask(s1, t, IfaceOf(<<r, i>>), <<r, i>>), t, r, i + 1)

\* ---------------------------------------------------------------- duration timer
\* no _auto_stop_after_duration task has been created
NoTimers == [r \in StartIds |-> [pc |-> "none", call |-> 0, run |-> 0]]

\* ---------------------------------------------------------------- polling client
\* the client has not polled yet: its first call passes no afterSeq
NoPoll == [after |-> None, got |-> <<>>, late |-> FALSE]

\* ---------------------------------------------------------------- schedules
\* ScheduleManager._schedules before a schedule is created. Of the one schedule:
\* skipIfRunning, _queuedRun, currentTabId, currentTabStatus, lastRunStatus,
\* whether inProgressUntilUtc is set, the _execute_schedule task that _sync_tabs
\* created and that has not run yet (pending), and per startTest call the kind
\* of execution that issued it
NoSchedule ==
    [exists |-> FALSE, skipIfRunning |-> TRUE, queued |-> FALSE, currentTabId |-> None,
     currentTabStatus |-> None, lastRunStatus |-> None, inProgress |-> FALSE,
     pending |-> FALSE, exec |-> [r \in StartIds |-> "none"]]

\* _start_scheduled_run resumed when start_test returns or raises: the Tab id is
\* recorded only now; the except clause clears inProgressUntilUtc
StartScheduledRunResumes(sc, r, pc) ==
    IF sc.exec[r] = "none" THEN sc
    ELSE IF pc = "returned"
    THEN [sc EXCEPT !.currentTabId = st[r].tab, !.currentTabStatus = "running",
                    !.inProgress = FALSE]
    ELSE IF pc \in {"failed", "error"}
    THEN [sc EXCEPT !.inProgress = FALSE]
    ELSE sc

\* ---------------------------------------------------------------- initial state
Init ==
    /\ tabs = <<>>
    /\ nextTab = 0
    /\ runs = <<>>
    /\ procs = [p \in ProcIds |-> NewProc]
    /\ task = [p \in ProcIds |-> NoProc]
    /\ watch = [p \in ProcIds |-> "none"]
    /\ journal = [p \in ProcIds |-> [start |-> 0, stop |-> 0]]
    /\ st = [r \in StartIds |-> [pc |-> "new", tab |-> 0, ifs |-> <<>>, k |-> 0]]
    /\ sp = [c \in StopIds |-> [pc |-> "new", tab |-> 0, run |-> 0, i |-> 0]]
    /\ ab = [pc |-> "new", running |-> <<>>]
    /\ nout = 0
    /\ fin = [k \in RunKeys |-> 0]
    /\ ann = [k \in RunKeys |-> 0]
    /\ calls = [p \in ProcIds |-> 0]
    /\ queues = <<>>
    /\ seen = <<>>
    /\ disk = <<>>
    /\ broken = FALSE
    /\ flt = NoFilter
    /\ timer = NoTimers
    /\ store = Clean
    /\ poll = NoPoll
    /\ sched = NoSchedule

\* ---------------------------------------------------------------- tab CRUD
\* TestExecutionManager.create_tab, while fewer than n Tabs have been created
CreateTabUpTo(n) ==
    /\ nextTab < n
    /\ nextTab' = nextTab + 1
    /\ LET s1 == Touch([Acquire(Cur) EXCEPT !.tabs = Put(@, nextTab + 1, NewTab)])
       IN Commit(Broadcast(Release(SaveStateLocked(s1)), Event("tab_created", nextTab + 1, 0)))
    /\ UNCHANGED <<flt, poll, sched, timer, seen, disk, st, sp, ab, nout>>

CreateTab == CreateTabUpTo(MaxTabs)

\* a delete_tab that ignored running_tab_ids
DeleteResult_IgnoreRunning(t, running) ==
    IF t \notin DOMAIN tabs THEN "notfound" ELSE "deleted"

\* TabManager.delete_tab(tab_id, running_tab_ids): the result of the call
DeleteResult(t, running) ==
    IF t \in running THEN "conflict"
    ELSE IF t \notin DOMAIN tabs THEN "notfound"
    ELSE "deleted"

\* TestExecutionManager.delete_tab
DeleteTab(t) ==
    /\ IF DeleteResult(t, GetRunningTabIds(Cur)) = "deleted"
       THEN LET s1 == Touch([Acquire(Cur) EXCEPT !.tabs = Pop(@, t)])
            IN Commit(Broadcast(Release(SaveStateLocked(s1)), Event("tab_deleted", t, 0)))
       ELSE Commit(Cur)
    /\ UNCHANGED <<flt, poll, sched, timer, seen, disk, nextTab, st, sp, ab, nout>>

\* TabManager.get_tab(tab_id): the result of the call
GetTabResult(t) == IF t \notin DOMAIN tabs THEN "notfound" ELSE "ok"

\* TestExecutionManager.get_tab: a read
GetTab(t) ==
    /\ GetTabResult(t) \in {"ok", "notfound"}
    /\ Commit(Cur)
    /\ UNCHANGED <<flt, poll, sched, timer, seen, disk, nextTab, st, sp, ab, nout>>

\* a get_logs whose filter keeps the entry with sequence number "after" too
GetLogsEntries_Inclusive(tab, after) ==
    IF after # None THEN SelectSeq(tab.logs, LAMBDA e : e.seq >= after) ELSE tab.logs

\* TabManager.get_logs: "entries", the retained entries with seq > after, or
\* all of them when after is None
GetLogsEntries(tab, after) ==
    IF after # None THEN SelectSeq(tab.logs, LAMBDA e : e.seq > after) ELSE tab.logs

\* TabManager.get_logs: "lastSeq"
GetLogsLastSeq(tab) == tab.log_seq

\* TabManager.get_logs(tab_id, after=after): the result of the call
GetLogsResult(t) == IF t \notin DOMAIN tabs THEN "notfound" ELSE "ok"

\* TestExecutionManager.get_logs: a read
GetLogs(t) ==
    /\ GetLogsResult(t) \in {"ok", "notfound"}
    /\ Commit(Cur)
    /\ UNCHANGED <<flt, poll, sched, timer, seen, disk, nextTab, st, sp, ab, nout>>

\* TabManager.update_tab(tab_id, title=, profile_id=): the result of the call
UpdateTabResult(t) == IF t \notin DOMAIN tabs THEN "notfound" ELSE "ok"

\* TestExecutionManager.update_tab: title and profile id are changed (status,
\* Run and logs are not) and the Tab's snapshot is broadcast
UpdateTab(t) ==
    /\ IF UpdateTabResult(t) = "ok"
       THEN Commit(Broadcast(Cur, Event("tab_updated", t, 0)))
       ELSE Commit(Cur)
    /\ UNCHANGED <<flt, poll, sched, timer, seen, disk, nextTab, st, sp, ab, nout>>

\* ---------------------------------------------------------------- startTest
\* the failure path of start_test: executor cleanup and log, then the facade's
\* except clause
StartFails(s, t, ps) ==
    MarkRunFailed(AppendLog(CleanupStartedProcesses(s, ps), t, "spawn_failed"), t, 0)

\* TestExecutionManager.start_test up to the first create_subprocess_exec
StartBegin(r, t, prof, outcome) ==
    /\ st[r].pc = "new"
    /\ r > 1 => st[r - 1].pc # "new"
    /\ Planned(MaxStarts) + Len(prof) <= MaxProcs
    /\ UNCHANGED <<flt, poll, sched, timer, seen, disk, nextTab, sp, ab, nout>>
    /\ IF t \notin DOMAIN tabs
       THEN /\ st' = [st EXCEPT ![r] = [@ EXCEPT !.pc = "notfound", !.tab = t]]
            /\ Commit(Cur)
       ELSE IF IsRunning(Cur, t)
       THEN /\ st' = [st EXCEPT ![r] = [@ EXCEPT !.pc = "conflict", !.tab = t]]
            /\ Commit(Cur)
       ELSE LET s1 == BroadcastTab(UpdateTabStatus(Cur, t, "starting", PlaceholderRun(r)), t)
                n == Len(prof)
                s2 == IF n > 1 THEN AppendLog(s1, t, "start_multi") ELSE s1
                s3 == AppendLogs(s2, t, "starting_if", n)
            IN IF outcome = "invalid"
               THEN /\ st' = [st EXCEPT ![r] = [pc |-> "failed", tab |-> t, ifs |-> prof, k |-> 0]]
                    /\ Commit(MarkRunFailed(s1, t, 0))
               ELSE IF outcome = "spawnfail"
               THEN /\ st' = [st EXCEPT ![r] = [pc |-> "failed", tab |-> t, ifs |-> prof, k |-> 0]]
                    /\ Commit(StartFails(s3, t, <<>>))
               ELSE /\ st' = [st EXCEPT ![r] = [pc |-> "spawning", tab |-> t, ifs |-> prof, k |-> 0]]
                    /\ Commit(s3)

\* registration of the run, the watchers, and the tab marked "running"
StartCompletes(s, t, r) ==
    LET s1 == [s EXCEPT !.runs = Put(@, t, r)]
        s2 == CreateWatchers(s1, t, r, 1)
        s3 == BroadcastTab(UpdateTabStatus(s2, t, "running", RealRun(r)), t)
    IN AppendLog(s3, t, "run_started")

\* start_test resumed after a create_subprocess_exec: the process is recorded,
\* then the next one is spawned or the run is registered
SpawnStep(r, outcome, timed) ==
    /\ st[r].pc = "spawning"
    /\ UNCHANGED <<flt, poll, seen, disk, nextTab, sp, ab, nout>>
    /\ LET t == st[r].tab
           k == st[r].k + 1
           p == <<r, k>>
           s1 == [Cur EXCEPT !.procs[p].st = "alive"]
           s2 == WriteCaptureMetadata(s1, p, "start")
           s3 == AppendLog(s2, t, "started")
       IN IF JournalFails(s1)
          THEN \* OSError leaves start_test and the facade: no cleanup, no failure handling
               /\ st' = [st EXCEPT ![r].k = k, ![r].pc = "error"]
               /\ Commit(s1)
          ELSE IF k < NIf(r)
          THEN IF outcome = "ok"
               THEN /\ st' = [st EXCEPT ![r].k = k]
                    /\ Commit(s3)
               ELSE /\ st' = [st EXCEPT ![r].k = k, ![r].pc = "failed"]
                    /\ Commit(StartFails(s3, t, [i \in 1..k |-> <<r, i>>]))
          ELSE /\ outcome = "ok"
               /\ st' = [st EXCEPT ![r].k = k, ![r].pc = "returned"]
               /\ Commit(IF timed THEN AppendLog(StartCompletes(s3, t, r), t, "auto_stop")
                                   ELSE StartCompletes(s3, t, r))
    /\ timer' = IF timed /\ st'[r].pc = "returned"
                THEN [timer EXCEPT ![r].pc = "armed"]
                ELSE timer
    /\ sched' = StartScheduledRunResumes(sched, r, st'[r].pc)

\* start_test with stopCondition "manual": no timer is created
SpawnResume(r, outcome) == SpawnStep(r, outcome, FALSE)

\* start_test with stopCondition "duration": the last step logs the automatic
\* stop and creates the _auto_stop_after_duration task
SpawnResumeTimed(r) == SpawnStep(r, "ok", TRUE)

\* ---------------------------------------------------------------- processes and watchers
\* the event loop collects the exit of a capture process
ProcExit(p, code) ==
    /\ procs[p].st = "alive"
    /\ procs' = [procs EXCEPT ![p].st = "exited", ![p].rc = code]
    /\ UNCHANGED <<tabs, nextTab, runs, task, watch, journal, st, sp, ab, nout, fin, ann,
                   calls, queues, seen, disk, broken, flt, timer, store, poll, sched>>

\* watch_interface_process: one output line becomes a log entry
WatcherOutput(p) ==
    /\ watch[p] = "waiting"
    /\ procs[p].st = "alive"
    /\ nout < MaxOutput
    /\ nout' = nout + 1
    /\ Commit(AppendLog(Cur, st[p[1]].tab, "output"))
    /\ UNCHANGED <<flt, poll, sched, timer, seen, disk, nextTab, st, sp, ab>>

\* watch_interface_process: process.wait() returned, the exit callback runs
WatcherExit(p) ==
    /\ watch[p] = "waiting"
    /\ procs[p].st = "exited"
    /\ LET t == st[p[1]].tab
           s1 == HandleInterfaceProcessExit(Cur, t, p[1], p, FALSE)
           \* exit_callback raised OSError: the except clause logs it and calls
           \* exit_callback again with the error, which raises again and is swallowed
           f1 == [Cur EXCEPT !.calls[p] = @ + 1]
           f2 == AppendLog(f1, t, "watch_error")
           f3 == [f2 EXCEPT !.calls[p] = @ + 1]
       IN IF JournalFails(Cur)
          THEN Commit([f3 EXCEPT !.watch[p] = "done"])
          ELSE Commit([s1 EXCEPT !.watch[p] = "done"])
    /\ UNCHANGED <<flt, poll, sched, timer, seen, disk, nextTab, st, sp, ab, nout>>

\* ---------------------------------------------------------------- stopTest
\* a termination that does not look at the returncode
StillRunning_All(s, r, i) == i..NIf(r)

\* the processes of the run from index i on whose returncode is still None
StillRunning(s, r, i) == {j \in i..NIf(r) : s.procs[<<r, j>>].rc = None}

\* the end of RunExecutor.stop_test (stop rows, exit codes) and of the facade's stop_test
StopFinish(s, c, t, r) ==
    LET ps == ProcsOf(r)
        s1 == WriteStopRows(s, ps, 1)
        codes == ReturnCodes(s1, ps)
        s2 == AppendLog(s1, t, "run_stopped")
    IN IF JournalFails(s)
       THEN \* OSError leaves stop_test and the facade before the Tab is updated
            /\ sp' = [sp EXCEPT ![c] = [pc |-> "error", tab |-> t, run |-> r, i |-> 0]]
            /\ Commit(s)
       ELSE IF t \notin DOMAIN s2.tabs
       THEN /\ sp' = [sp EXCEPT ![c] = [pc |-> "notfound", tab |-> t, run |-> r, i |-> 0]]
            /\ Commit(s2)
       ELSE /\ sp' = [sp EXCEPT ![c] = [pc |-> "stopped", tab |-> t, run |-> r, i |-> 0]]
            /\ Commit(FinalizeOnStop(s2, t, codes))

\* terminate_process_safely for the processes from index i on, up to the
\* first wait for a process that has not exited
TerminateFrom(s, c, t, r, i) ==
    LET alive == StillRunning(s, r, i)
    IN IF alive = {}
       THEN StopFinish(s, c, t, r)
       ELSE LET j == CHOOSE x \in alive : \A y \in alive : x <= y
                s1 == Signal(AppendLog(s, t, "send_term"), <<r, j>>, "TERM")
            IN /\ sp' = [sp EXCEPT ![c] = [pc |-> "termwait", tab |-> t, run |-> r, i |-> j]]
               /\ Commit(s1)

\* the stop message, then the termination of every sibling
StopProceed(s, c, t, r) ==
    TerminateFrom(AppendLog(s, t, "stop_signal"), c, t, r, 1)

\* a stop_test that raised not-found whenever the executor had no run
NotRunningResult_Raise(t) == "notfound"

\* the facade's stop_test when the executor reports {"stopped": False}: the
\* Tab's snapshot is returned, or not-found is raised for an unknown Tab
NotRunningResult(t) == IF t \in DOMAIN tabs THEN "notrunning" ELSE "notfound"

\* stop_test from engine state s up to its first suspension
StopCall(s, c, t) ==
    IF ~IsRunning(s, t)
    THEN /\ sp' = [sp EXCEPT ![c] = [@ EXCEPT !.tab = t, !.pc = NotRunningResult(t)]]
         /\ Commit(s)
    ELSE LET r == s.runs[t]
             s1 == RemoveRun(s, t)
             s2 == CancelWatchers(s1, ProcsOf(r), 1)
         IN IF PendingWatcher(s1, ProcsOf(r))
            THEN /\ sp' = [sp EXCEPT ![c] = [pc |-> "cancelwait", tab |-> t, run |-> r, i |-> 0]]
                 /\ Commit(s2)
            ELSE StopProceed(s2, c, t, r)

\* stop_test up to its first suspension; a call that found no run has
\* returned and left nothing behind, so the same caller may call again
StopBegin(c, t) ==
    /\ sp[c].pc = "new" \/ (sp[c].pc \in {"notrunning", "notfound"} /\ sp[c].run = 0)
    /\ c > 1 => sp[c - 1].pc # "new"
    /\ UNCHANGED <<flt, poll, sched, timer, seen, disk, nextTab, st, ab, nout>>
    /\ StopCall(Cur, c, t)

\* the cancelled watchers have unwound
StopAfterCancel(c) ==
    /\ sp[c].pc = "cancelwait"
    /\ UNCHANGED <<flt, poll, sched, timer, seen, disk, nextTab, st, ab, nout>>
    /\ StopProceed(Cur, c, sp[c].tab, sp[c].run)

\* wait_for(process.wait(), TIMEOUT_TERM_WAIT) returned: the process exited
StopTermResume(c) ==
    /\ sp[c].pc = "termwait"
    /\ procs[<<sp[c].run, sp[c].i>>].st = "exited"
    /\ UNCHANGED <<flt, poll, sched, timer, seen, disk, nextTab, st, ab, nout>>
    /\ TerminateFrom(Cur, c, sp[c].tab, sp[c].run, sp[c].i + 1)

\* wait_for(process.wait(), TIMEOUT_TERM_WAIT) timed out: escalate to SIGKILL
StopTermTimeout(c) ==
    /\ sp[c].pc = "termwait"
    /\ procs[<<sp[c].run, sp[c].i>>].st = "alive"
    /\ UNCHANGED <<flt, poll, sched, timer, seen, disk, nextTab, st, ab, nout>>
    /\ sp' = [sp EXCEPT ![c].pc = "killwait"]
    /\ Commit(Signal(AppendLog(Cur, sp[c].tab, "term_timeout"), <<sp[c].run, sp[c].i>>, "KILL"))

\* wait_for(process.wait(), TIMEOUT_KILL_WAIT) returned: the process exited
StopKillResume(c) ==
    /\ sp[c].pc = "killwait"
    /\ procs[<<sp[c].run, sp[c].i>>].st = "exited"
    /\ UNCHANGED <<flt, poll, sched, timer, seen, disk, nextTab, st, ab, nout>>
    /\ TerminateFrom(Cur, c, sp[c].tab, sp[c].run, sp[c].i + 1)

\* wait_for(process.wait(), TIMEOUT_KILL_WAIT) timed out: logged, treated as terminated
StopKillTimeout(c) ==
    /\ sp[c].pc = "killwait"
    /\ procs[<<sp[c].run, sp[c].i>>].st = "alive"
    /\ UNCHANGED <<flt, poll, sched, timer, seen, disk, nextTab, st, ab, nout>>
    /\ TerminateFrom(AppendLog(Cur, sp[c].tab, "unresponsive"), c, sp[c].tab, sp[c].run, sp[c].i + 1)

\* ---------------------------------------------------------------- abortAll
RECURSIVE CancelAll(_, _, _)
\* for tab_id, state in running: cancel every watcher task
CancelAll(s, running, t) ==
    IF t > MaxTabs THEN s
    ELSE CancelAll(IF t \in DOMAIN running THEN CancelWatchers(s, ProcsOf(running[t]), 1) ELSE s,
                   running, t + 1)

RECURSIVE TerminateAll_Logging(_, _, _)
\* an abort_all that reports to every Tab through its log_callback
TerminateAll_Logging(s, running, t) ==
    IF t > MaxTabs THEN s
    ELSE TerminateAll_Logging(IF t \in DOMAIN running
                              THEN AppendLog(WriteStopRows(SignalAll(s, ProcsOf(running[t]), 1, "TERM"),
                                                           ProcsOf(running[t]), 1), t, "aborted")
                              ELSE s,
                              running, t + 1)

RECURSIVE TerminateAll(_, _, _)
\* for tab_id, state in running: terminate() every process, then write the stop rows
TerminateAll(s, running, t) ==
    IF t > MaxTabs THEN s
    ELSE TerminateAll(IF t \in DOMAIN running
                      THEN WriteStopRows(SignalAll(s, ProcsOf(running[t]), 1, "TERM"),
                                         ProcsOf(running[t]), 1)
                      ELSE s,
                      running, t + 1)

\* abort_all up to asyncio.sleep(0.1)
AbortBegin ==
    /\ ab.pc = "new"
    /\ ab' = [pc |-> "sleep", running |-> runs]
    /\ Commit(CancelAll([Cur EXCEPT !.runs = <<>>], runs, 1))
    /\ UNCHANGED <<flt, poll, sched, timer, seen, disk, nextTab, st, sp, nout>>

\* abort_all when the first stop row cannot be written: the processes of the
\* first run have been sent terminate(), then OSError leaves abort_all
TerminateFirst(s, running) ==
    IF DOMAIN running = {} THEN s
    ELSE LET t == CHOOSE x \in DOMAIN running : \A y \in DOMAIN running : x <= y
         IN SignalAll(s, ProcsOf(running[t]), 1, "TERM")

\* abort_all after the sleep
AbortFinish ==
    /\ ab.pc = "sleep"
    /\ IF JournalFails(Cur) /\ DOMAIN ab.running # {}
       THEN /\ ab' = [ab EXCEPT !.pc = "error"]
            /\ Commit(TerminateFirst(Cur, ab.running))
       ELSE /\ ab' = [ab EXCEPT !.pc = "done"]
            /\ Commit(TerminateAll(Cur, ab.running, 1))
    /\ UNCHANGED <<flt, poll, sched, timer, seen, disk, nextTab, st, sp, nout>>

\* ---------------------------------------------------------------- specification
Outcomes == {"ok", "invalid", "spawnfail"}

Next ==
    \/ CreateTab
    \/ \E t \in TabIds : DeleteTab(t)
    \/ \E r \in StartIds, t \in TabIds, prof \in Profiles, o \in Outcomes : StartBegin(r, t, prof, o)
    \/ \E r \in StartIds, o \in {"ok", "spawnfail"} : SpawnResume(r, o)
    \/ \E p \in ProcIds, code \in ExitCodes : ProcExit(p, code)
    \/ \E p \in ProcIds : WatcherOutput(p)
    \/ \E p \in ProcIds : WatcherExit(p)
    \/ \E c \in StopIds, t \in TabIds : StopBegin(c, t)
    \/ \E c \in StopIds : StopAfterCancel(c)
    \/ \E c \in StopIds : StopTermResume(c)
    \/ \E c \in StopIds : StopTermTimeout(c)
    \/ \E c \in StopIds : StopKillResume(c)
    \/ \E c \in StopIds : StopKillTimeout(c)
    \/ AbortBegin
    \/ AbortFinish

Spec == Init /\ [][Next]_vars

\* ---------------------------------------------------------------- journal failures
\* the capture directory becomes unwritable (disk full, permissions, unmounted)
JournalBreaks ==
    /\ ~broken
    /\ broken' = TRUE
    /\ UNCHANGED <<tabs, nextTab, runs, procs, task, watch, journal, st, sp, ab, nout, fin, ann,
                   calls, queues, seen, disk, flt, timer, store, poll, sched>>

\* the engine with one startTest call, in an environment where the journal
\* can become unwritable
FaultNext ==
    \/ CreateTab
    \/ \E t \in TabIds : DeleteTab(t)
    \/ \E t \in TabIds, prof \in Profiles, o \in Outcomes : StartBegin(1, t, prof, o)
    \/ \E o \in {"ok", "spawnfail"} : SpawnResume(1, o)
    \/ \E p \in ProcIds, code \in ExitCodes : ProcExit(p, code)
    \/ \E p \in ProcIds : WatcherOutput(p)
    \/ \E p \in ProcIds : WatcherExit(p)
    \/ \E c \in StopIds, t \in TabIds : StopBegin(c, t)
    \/ \E c \in StopIds : StopAfterCancel(c)
    \/ \E c \in StopIds : StopTermResume(c)
    \/ \E c \in StopIds : StopTermTimeout(c)
    \/ \E c \in StopIds : StopKillResume(c)
    \/ \E c \in StopIds : StopKillTimeout(c)
    \/ AbortBegin
    \/ AbortFinish
    \/ JournalBreaks

FaultSpec == Init /\ [][FaultNext]_vars

\* ---------------------------------------------------------------- termination
\* one Run and the stopTest calls on it
TermNext ==
    \/ CreateTab
    \/ \E t \in TabIds, prof \in Profiles : StartBegin(1, t, prof, "ok")
    \/ SpawnResume(1, "ok")
    \/ \E p \in ProcIds : ProcExit(p, 0)
    \/ \E p \in ProcIds : WatcherOutput(p)
    \/ \E p \in ProcIds : WatcherExit(p)
    \/ \E c \in StopIds, t \in TabIds : StopBegin(c, t)
    \/ \E c \in StopIds : StopAfterCancel(c)
    \/ \E c \in StopIds : StopTermResume(c)
    \/ \E c \in StopIds : StopTermTimeout(c)
    \/ \E c \in StopIds : StopKillResume(c)
    \/ \E c \in StopIds : StopKillTimeout(c)

\* every wait of stop_test is a wait_for with a timeout: the event loop resumes
\* the call when the awaited exit or the timeout comes
StopResumes ==
    \E c \in StopIds : \/ StopAfterCancel(c)
                        \/ StopTermResume(c) \/ StopTermTimeout(c)
                        \/ StopKillResume(c) \/ StopKillTimeout(c)

TermSpec == Init /\ [][TermNext]_vars /\ WF_vars(StopResumes)

\* ---------------------------------------------------------------- watcher errors
\* The watcher of p when the journal is unwritable at the handler's stop row and
\* writable again a moment later: exit_callback raises OSError, the except
\* clause logs it and calls exit_callback(process.returncode, error=str(exc)),
\* and this second call runs through.
WatcherExitRetry(p) ==
    /\ watch[p] = "waiting"
    /\ procs[p].st = "exited"
    /\ JournalFails(Cur)
    /\ LET t == st[p[1]].tab
           f1 == [Cur EXCEPT !.calls[p] = @ + 1]
           f2 == AppendLog(f1, t, "watch_error")
           f3 == HandleInterfaceProcessExit([f2 EXCEPT !.broken = FALSE], t, p[1], p, TRUE)
       IN Commit([f3 EXCEPT !.watch[p] = "done"])
    /\ UNCHANGED <<flt, poll, sched, timer, seen, disk, nextTab, st, sp, ab, nout>>

\* one startTest call whose processes exit on their own, in an environment
\* where the journal is unwritable for a while
RetryNext ==
    \/ CreateTab
    \/ \E t \in TabIds, prof \in Profiles : StartBegin(1, t, prof, "ok")
    \/ SpawnResume(1, "ok")
    \/ \E p \in ProcIds, code \in ExitCodes : ProcExit(p, code)
    \/ \E p \in ProcIds : WatcherExit(p)
    \/ \E p \in ProcIds : WatcherExitRetry(p)
    \/ JournalBreaks

RetrySpec == Init /\ [][RetryNext]_vars

\* ---------------------------------------------------------------- natural exits
\* the engine with start calls only: processes exit on their own and their
\* watchers handle the exits
ExitNext ==
    \/ CreateTab
    \/ \E r \in StartIds, t \in TabIds, prof \in Profiles : StartBegin(r, t, prof, "ok")
    \/ \E r \in StartIds : SpawnResume(r, "ok")
    \/ \E p \in ProcIds, code \in ExitCodes : ProcExit(p, code)
    \/ \E p \in ProcIds : WatcherExit(p)

\* create_subprocess_exec has been awaited by start call r
SpawnDue(r) == st[r].pc = "spawning"

\* the watcher of p is pending and the process has exited: readline() returns
\* end of file and process.wait() returns
WatcherDue(p) == watch[p] = "waiting" /\ procs[p].st = "exited"

\* The event loop resumes a coroutine whose awaited result is there. Under
\* ExitNext only SpawnResume(r, "ok") ends SpawnDue(r) and only WatcherExit(p)
\* ends WatcherDue(p), so weak fairness of these two actions says that neither
\* condition holds forever; that is stated on the conditions themselves.
SpawnScheduled(r) ==
    /\ SpawnDue(r)
    /\ st' = [st EXCEPT ![r].pc = "resumed"]
    /\ UNCHANGED <<tabs, nextTab, runs, procs, task, watch, journal, sp, ab, nout, fin, ann,
                   calls, queues, seen, disk, broken, flt, timer, store, poll, sched>>

WatcherScheduled(p) ==
    /\ WatcherDue(p)
    /\ watch' = [watch EXCEPT ![p] = "resumed"]
    /\ UNCHANGED <<tabs, nextTab, runs, procs, task, journal, st, sp, ab, nout, fin, ann,
                   calls, queues, seen, disk, broken, flt, timer, store, poll, sched>>

ExitFairness ==
    /\ \A r \in StartIds : WF_vars(SpawnScheduled(r))
    /\ \A p \in ProcIds : WF_vars(WatcherScheduled(p))

ExitSpec == Init /\ [][ExitNext]_vars /\ ExitFairness

\* ---------------------------------------------------------------- duration timer
\* a timer that stops whatever Run the Tab has
TimerMayStop_AnyRun(s, t, r) ==
    /\ t \in DOMAIN s.tabs
    /\ s.tabs[t].run.owner # 0
    /\ ~s.tabs[t].run.finished
    /\ IsRunning(s, t)

\* the guards of _auto_stop_after_duration after its sleep: the Tab exists,
\* its Run is the one the timer was armed for, is unfinished and registered
TimerMayStop(s, t, r) ==
    /\ t \in DOMAIN s.tabs
    /\ s.tabs[t].run.owner # 0
    /\ s.tabs[t].run.id = r
    /\ ~s.tabs[t].run.finished
    /\ IsRunning(s, t)

\* run = tab.run as the timer reads it: the id of the Tab's Run, 0 without one
TabRunId(s, t) ==
    IF t \in DOMAIN s.tabs /\ s.tabs[t].run.owner # 0 THEN s.tabs[t].run.id ELSE 0

\* _auto_stop_after_duration: asyncio.sleep(duration) is over; when the guards
\* hold the expiry is logged and stop_test runs up to its first suspension
TimerFires(r) ==
    /\ timer[r].pc = "armed"
    /\ UNCHANGED <<flt, poll, sched, seen, disk, nextTab, st, ab, nout>>
    /\ LET t == st[r].tab
       IN IF ~TimerMayStop(Cur, t, r)
          THEN /\ timer' = [timer EXCEPT ![r].pc = "returned", ![r].run = TabRunId(Cur, t)]
               /\ sp' = sp
               /\ Commit(Cur)
          ELSE \E c \in StopIds :
                  /\ sp[c].pc = "new" \/ (sp[c].pc \in {"notrunning", "notfound"} /\ sp[c].run = 0)
                  /\ c > 1 => sp[c - 1].pc # "new"
                  /\ timer' = [timer EXCEPT ![r] = [pc |-> "stopping", call |-> c, run |-> r]]
                  /\ StopCall(AppendLog(Cur, t, "timer_expired"), c, t)

\* the engine with manual and timed Runs: starts, natural exits, stopTest and
\* the duration timers
TimerNext ==
    \/ CreateTab
    \/ \E r \in StartIds, t \in TabIds, prof \in Profiles : StartBegin(r, t, prof, "ok")
    \/ \E r \in StartIds : SpawnResume(r, "ok")
    \/ \E r \in StartIds : SpawnResumeTimed(r)
    \/ \E r \in StartIds : TimerFires(r)
    \/ \E p \in ProcIds : ProcExit(p, 0)
    \/ \E p \in ProcIds : WatcherExit(p)
    \/ \E c \in StopIds, t \in TabIds : StopBegin(c, t)
    \/ \E c \in StopIds : StopAfterCancel(c)
    \/ \E c \in StopIds : StopTermResume(c)
    \/ \E c \in StopIds : StopTermTimeout(c)
    \/ \E c \in StopIds : StopKillResume(c)
    \/ \E c \in StopIds : StopKillTimeout(c)

TimerSpec == Init /\ [][TimerNext]_vars

\* ---------------------------------------------------------------- two Tabs
PairTabIds == 1..MaxPairTabs

\* the engine with two Tabs: manual and timed Runs, output lines, natural
\* exits, stopTest and the duration timers
PairNext ==
    \/ CreateTabUpTo(MaxPairTabs)
    \/ \E r \in StartIds, t \in PairTabIds, prof \in Profiles : StartBegin(r, t, prof, "ok")
    \/ \E r \in StartIds : SpawnResume(r, "ok")
    \/ \E p \in ProcIds : ProcExit(p, 0)
    \/ \E p \in ProcIds : WatcherOutput(p)
    \/ \E p \in ProcIds : WatcherExit(p)
    \/ \E c \in StopIds, t \in PairTabIds : StopBegin(c, t)
    \/ \E c \in StopIds : StopAfterCancel(c)
    \/ \E c \in StopIds : StopTermResume(c)
    \/ \E c \in StopIds : StopTermTimeout(c)
    \/ \E c \in StopIds : StopKillResume(c)
    \/ \E c \in StopIds : StopKillTimeout(c)

PairSpec == Init /\ [][PairNext]_vars

\* ---------------------------------------------------------------- subscribers
EngineVars == <<tabs, nextTab, runs, procs, task, watch, journal, st, sp, ab, nout, fin, ann,
                calls, disk, broken, flt, timer, store, poll, sched>>

\* subscribe(): a new bounded queue joins the listeners (a websocket connects)
Subscribe(x) ==
    /\ x \notin DOMAIN queues
    /\ queues' = Put(queues, x, <<>>)
    /\ seen' = Put(seen, x, [t \in TabIds |-> 0])
    /\ UNCHANGED EngineVars

\* unsubscribe(queue): the queue leaves the listeners (the websocket closes)
Unsubscribe(x) ==
    /\ x \in DOMAIN queues
    /\ queues' = Pop(queues, x)
    /\ seen' = Pop(seen, x)
    /\ UNCHANGED EngineVars

\* the websocket loop: queue.get() takes the oldest event and sends it
Consume(x) ==
    /\ x \in DOMAIN queues
    /\ queues[x] # <<>>
    /\ LET ev == Head(queues[x])
       IN /\ queues' = [queues EXCEPT ![x] = Tail(@)]
          /\ seen' = IF ev.type = "log_entry" THEN [seen EXCEPT ![x][ev.tab] = ev.seq] ELSE seen
    /\ UNCHANGED EngineVars

\* one started Run with its natural exits, observed by subscribers
EventNext ==
    \/ CreateTab
    \/ \E t \in TabIds : DeleteTab(t)
    \/ \E t \in TabIds, prof \in Profiles, o \in Outcomes : StartBegin(1, t, prof, o)
    \/ \E o \in {"ok", "spawnfail"} : SpawnResume(1, o)
    \/ \E p \in ProcIds : ProcExit(p, 0)
    \/ \E p \in ProcIds : WatcherOutput(p)
    \/ \E p \in ProcIds : WatcherExit(p)
    \/ \E x \in SubIds : Subscribe(x)
    \/ \E x \in SubIds : Unsubscribe(x)
    \/ \E x \in SubIds : Consume(x)

EventSpec == Init /\ [][EventNext]_vars

\* ---------------------------------------------------------------- tab operations
\* every operation that takes a Tab id, on one Tab with one Run, observed by
\* one subscriber
CrudNext ==
    \/ CreateTab
    \/ \E t \in TabIds : GetTab(t)
    \/ \E t \in TabIds : GetLogs(t)
    \/ \E t \in TabIds : UpdateTab(t)
    \/ \E t \in TabIds : DeleteTab(t)
    \/ \E t \in TabIds, prof \in Profiles, o \in Outcomes : StartBegin(1, t, prof, o)
    \/ \E o \in {"ok", "spawnfail"} : SpawnResume(1, o)
    \/ \E p \in ProcIds : ProcExit(p, 0)
    \/ \E p \in ProcIds : WatcherExit(p)
    \/ \E c \in StopIds, t \in TabIds : StopBegin(c, t)
    \/ \E c \in StopIds : StopAfterCancel(c)
    \/ \E c \in StopIds : StopTermResume(c)
    \/ \E c \in StopIds : StopTermTimeout(c)
    \/ \E c \in StopIds : StopKillResume(c)
    \/ \E c \in StopIds : StopKillTimeout(c)
    \/ Subscribe(1)
    \/ Consume(1)

CrudSpec == Init /\ [][CrudNext]_vars

\* ---------------------------------------------------------------- log polling
\* the client calls getLogs with the lastSeq of its previous call as afterSeq and
\* keeps the sequence numbers of the entries it gets; the history notes when
\* more entries than the log retains were appended since its previous call
PollLogs(t) ==
    /\ IF t \notin DOMAIN tabs
       THEN poll' = poll
       ELSE LET entries == GetLogsEntries(tabs[t], poll.after)
                since == IF poll.after = None THEN 0 ELSE poll.after
            IN poll' = [after |-> GetLogsLastSeq(tabs[t]),
                        got |-> poll.got \o [i \in 1..Len(entries) |-> entries[i].seq],
                        late |-> poll.late \/ tabs[t].log_seq - since > MaxLogEntries]
    /\ UNCHANGED <<tabs, nextTab, runs, procs, task, watch, journal, st, sp, ab, nout, fin, ann,
                   calls, queues, seen, disk, broken, flt, timer, store, sched>>

\* one Tab with one Run and its natural exits, and a client polling its log
PollNext ==
    \/ CreateTab
    \/ \E t \in TabIds, prof \in Profiles, o \in Outcomes : StartBegin(1, t, prof, o)
    \/ \E o \in {"ok", "spawnfail"} : SpawnResume(1, o)
    \/ \E p \in ProcIds : ProcExit(p, 0)
    \/ \E p \in ProcIds : WatcherOutput(p)
    \/ \E p \in ProcIds : WatcherExit(p)
    \/ \E t \in TabIds : PollLogs(t)

PollSpec == Init /\ [][PollNext]_vars

\* ---------------------------------------------------------------- scheduled runs
\* ScheduleManager.create: the schedule is stored with currentTabId None
CreateSchedule(skip) ==
    /\ ~sched.exists
    /\ sched' = [NoSchedule EXCEPT !.exists = TRUE, !.skipIfRunning = skip]
    /\ UNCHANGED <<tabs, nextTab, runs, procs, task, watch, journal, st, sp, ab, nout, fin, ann,
                   calls, queues, seen, disk, broken, flt, timer, store, poll>>

\* _start_scheduled_run up to the first create_subprocess_exec of start_test:
\* a fresh Tab is created and started; a start that raises at once reaches the
\* except clause in the same step
StartScheduledRun(sc, r, kind, prof, outcome) ==
    LET t == nextTab + 1
        n == Len(prof)
        s0 == Touch([Acquire(Cur) EXCEPT !.tabs = Put(@, t, NewTab)])
        s1 == Broadcast(Release(SaveStateLocked(s0)), Event("tab_created", t, 0))
        s2 == BroadcastTab(UpdateTabStatus(s1, t, "starting", PlaceholderRun(r)), t)
        s3 == IF n > 1 THEN AppendLog(s2, t, "start_multi") ELSE s2
        s4 == AppendLogs(s3, t, "starting_if", n)
    IN /\ st[r].pc = "new"
       /\ r > 1 => st[r - 1].pc # "new"
       /\ nextTab < MaxSchedRuns
       /\ Planned(MaxStarts) + n <= MaxProcs
       /\ nextTab' = t
       /\ st' = [st EXCEPT ![r] = [pc |-> IF outcome = "ok" THEN "spawning" ELSE "failed",
                                   tab |-> t, ifs |-> prof, k |-> 0]]
       /\ Commit(IF outcome = "invalid" THEN MarkRunFailed(s2, t, 0)
                 ELSE IF outcome = "spawnfail" THEN StartFails(s4, t, <<>>)
                 ELSE s4)
       /\ sched' = [sc EXCEPT !.exec[r] = kind, !.lastRunStatus = None,
                              !.inProgress = (outcome = "ok")]

\* _execute_schedule: only a recorded currentTabId stands for a run in progress;
\* inProgressUntilUtc is written but not read
ExecuteSchedule(sc, r, kind, force, prof, outcome) ==
    /\ sc.exists
    /\ UNCHANGED <<flt, poll, timer, seen, disk, sp, ab, nout>>
    /\ IF sc.currentTabId # None
       THEN /\ sched' = [sc EXCEPT !.queued = @ \/ (~force /\ ~sc.skipIfRunning)]
            /\ UNCHANGED <<nextTab, st>>
            /\ Commit(Cur)
       ELSE StartScheduledRun(sc, r, kind, prof, outcome)

\* the scheduler's executor refuses a job whose previous instance still runs
\* (max_instances=1)
MaxInstancesReached ==
    \E r \in StartIds : sched.exec[r] = "timer" /\ st[r].pc = "spawning"

\* the date trigger of the schedule's job fires
ExecuteScheduleJob(r, prof, outcome) ==
    /\ ~MaxInstancesReached
    /\ ExecuteSchedule(sched, r, "timer", FALSE, prof, outcome)

\* ScheduleManager.trigger, accepted: no Tab id is recorded for the schedule.
\* (A refused trigger changes nothing.)
Trigger(r, prof, outcome) ==
    /\ sched.exists
    /\ sched.currentTabId = None
    /\ ExecuteSchedule(sched, r, "manual", TRUE, prof, outcome)

\* the task that _sync_tabs created for a queued run starts executing
ExecuteQueuedRun(r, prof, outcome) ==
    /\ sched.pending
    /\ ExecuteSchedule([sched EXCEPT !.pending = FALSE], r, "queued", TRUE, prof, outcome)

\* ScheduleManager._sync_tabs, the 10 s interval job
SyncTabs ==
    /\ sched.exists
    /\ LET id == sched.currentTabId
           status == IF id \in DOMAIN tabs THEN tabs[id].status ELSE None
       IN sched' =
            IF id = None
            THEN IF sched.queued
                 THEN [sched EXCEPT !.queued = FALSE, !.pending = TRUE]
                 ELSE sched
            ELSE IF status \notin {"running", "starting"}
            THEN [sched EXCEPT !.lastRunStatus =
                                   IF status \in {"completed", "failed", "cancelled"}
                                   THEN status ELSE @,
                               !.currentTabId = None, !.currentTabStatus = None,
                               !.inProgress = FALSE]
            ELSE [sched EXCEPT !.currentTabStatus = status]
    /\ UNCHANGED <<tabs, nextTab, runs, procs, task, watch, journal, st, sp, ab, nout, fin, ann,
                   calls, queues, seen, disk, broken, flt, timer, store, poll>>

\* one schedule, its timer, manual triggers and queued runs, over the engine
SchedNext ==
    \/ \E skip \in BOOLEAN : CreateSchedule(skip)
    \/ \E r \in StartIds, prof \in Profiles, o \in Outcomes : ExecuteScheduleJob(r, prof, o)
    \/ \E r \in StartIds, prof \in Profiles, o \in Outcomes : Trigger(r, prof, o)
    \/ \E r \in StartIds, prof \in Profiles, o \in Outcomes : ExecuteQueuedRun(r, prof, o)
    \/ SyncTabs
    \/ \E r \in StartIds, o \in {"ok", "spawnfail"} : SpawnResume(r, o)
    \/ \E p \in ProcIds, code \in ExitCodes : ProcExit(p, code)
    \/ \E p \in ProcIds : WatcherOutput(p)
    \/ \E p \in ProcIds : WatcherExit(p)

SchedSpec == Init /\ [][SchedNext]_vars

\* ---------------------------------------------------------------- filter generation
\* a profile with any of the filter settings
FilterInit ==
    /\ flt \in {[NoFilter EXCEPT !.settings = g] : g \in Settings}
    /\ timer = NoTimers
    /\ store = Clean
    /\ poll = NoPoll
    /\ sched = NoSchedule
    /\ tabs = <<>>
    /\ nextTab = 0
    /\ runs = <<>>
    /\ procs = [p \in ProcIds |-> NewProc]
    /\ task = [p \in ProcIds |-> NoProc]
    /\ watch = [p \in ProcIds |-> "none"]
    /\ journal = [p \in ProcIds |-> [start |-> 0, stop |-> 0]]
    /\ st = [r \in StartIds |-> [pc |-> "new", tab |-> 0, ifs |-> <<>>, k |-> 0]]
    /\ sp = [c \in StopIds |-> [pc |-> "new", tab |-> 0, run |-> 0, i |-> 0]]
    /\ ab = [pc |-> "new", running |-> <<>>]
    /\ nout = 0
    /\ fin = [k \in RunKeys |-> 0]
    /\ ann = [k \in RunKeys |-> 0]
    /\ calls = [p \in ProcIds |-> 0]
    /\ queues = <<>>
    /\ seen = <<>>
    /\ disk = <<>>
    /\ broken = FALSE

\* bpf_filter = build_bpf_filter(settings) when a test is prepared
BuildFilter ==
    /\ ~flt.built
    /\ flt' = [flt EXCEPT !.built = TRUE, !.result = BuildBpfFilter(flt.settings)]
    /\ UNCHANGED <<tabs, nextTab, runs, procs, task, watch, journal, st, sp, ab, nout, fin, ann,
                   calls, queues, seen, disk, broken, timer, store, poll, sched>>

FilterSpec == FilterInit /\ [][BuildFilter]_vars
\* ---------------------------------------------------------------- persistence
\* class TabStatus
TabStatus == {"idle", "starting", "running", "completed", "failed", "cancelled"}

\* owner of a Run object that was read from tabs.json
Loaded == MaxStarts + 1

\* the "run" value of a tab dict in tabs.json: null, {} or a dict with the keys
\* id, finishedUtc, error and, optionally, exitCodes
RunDict(kind, id, finishedUtc, error, hasExitCodes, exitCodes) ==
    [kind |-> kind, id |-> id, finishedUtc |-> finishedUtc, error |-> error,
     hasExitCodes |-> hasExitCodes, exitCodes |-> exitCodes]
NullRun == RunDict("null", 0, FALSE, FALSE, FALSE, <<>>)

\* Run.to_dict: exitCodes is written only when it is not None
RunToDict(run) ==
    RunDict("dict", run.id, run.finished, run.error, run.exit_codes # <<>>, run.exit_codes)

\* Run.from_dict
RunFromDict(d) ==
    [owner |-> Loaded, id |-> d.id, finished |-> d.finishedUtc,
     exit_codes |-> IF d.hasExitCodes THEN d.exitCodes ELSE <<>>, error |-> d.error]

\* Tab.to_dict
TabToDict(id, tab) ==
    [kind |-> "dict", id |-> id, status |-> tab.status,
     run |-> IF tab.run.owner = 0 THEN NullRun ELSE RunToDict(tab.run),
     logSeq |-> tab.log_seq]

\* Tab.from_dict: a missing status defaults to idle, a run that is not a
\* non-empty dict becomes None
TabFromDict(d) ==
    [status |-> IF d.status = "absent" THEN "idle" ELSE d.status,
     run |-> IF d.run.kind = "dict" THEN RunFromDict(d.run) ELSE NoRun,
     log_seq |-> d.logSeq, logs |-> <<>>]

\* a load that resets only running tabs
LoadTab_KeepStarting(d) ==
    LET tab == TabFromDict(d)
    IN IF tab.status = "running" THEN [tab EXCEPT !.status = "idle", !.run = NoRun] ELSE tab

\* _load_state, one entry: statuses that cannot be resumed are cleaned up
LoadTab(d) ==
    LET tab == TabFromDict(d)
    IN IF tab.status \in {"running", "starting"}
       THEN [tab EXCEPT !.status = "idle", !.run = NoRun]
       ELSE tab

RECURSIVE LoadTabs(_, _, _)
\* _load_state: entries that are no dict or have no id are skipped, a later
\* entry replaces an earlier one with the same id
LoadTabs(d, i, acc) ==
    IF i > Len(d) THEN acc
    ELSE IF d[i].kind # "dict" \/ d[i].id = 0 THEN LoadTabs(d, i + 1, acc)
    ELSE LoadTabs(d, i + 1, Put(acc, d[i].id, LoadTab(d[i])))

\* the run dicts that Run.to_dict can have written, and {}
RunDicts ==
    {NullRun, RunDict("empty", 0, FALSE, FALSE, FALSE, <<>>)}
    \cup {RunToDict(PlaceholderRun(1)), RunToDict(RealRun(1))}
    \cup {RunToDict([RealRun(1) EXCEPT !.finished = TRUE, !.exit_codes = <<c>>, !.error = e]) :
             c \in {0, None}, e \in BOOLEAN}

\* the entries of the "tabs" list: something that is no dict, a dict without
\* id, or a tab dict with id i
DiskEntries(i) ==
    {[kind |-> "junk", id |-> 0, status |-> "absent", run |-> NullRun, logSeq |-> 0],
     [kind |-> "dict", id |-> 0, status |-> "idle", run |-> NullRun, logSeq |-> 0]}
    \cup {[kind |-> "dict", id |-> i, status |-> s, run |-> r, logSeq |-> 0] :
             s \in TabStatus \cup {"absent"}, r \in RunDicts}

Snapshots ==
    UNION {{d \in [1..n -> UNION {DiskEntries(i) : i \in 1..n}] :
               \A i \in 1..n : d[i] \in DiskEntries(i)} : n \in 0..MaxDiskTabs}

\* before TabManager.__init__ reads tabs.json
LoadInit ==
    /\ disk \in Snapshots
    /\ tabs = <<>>
    /\ nextTab = 0
    /\ runs = <<>>
    /\ procs = [p \in ProcIds |-> NewProc]
    /\ task = [p \in ProcIds |-> NoProc]
    /\ watch = [p \in ProcIds |-> "none"]
    /\ journal = [p \in ProcIds |-> [start |-> 0, stop |-> 0]]
    /\ st = [r \in StartIds |-> [pc |-> "new", tab |-> 0, ifs |-> <<>>, k |-> 0]]
    /\ sp = [c \in StopIds |-> [pc |-> "new", tab |-> 0, run |-> 0, i |-> 0]]
    /\ ab = [pc |-> "new", running |-> <<>>]
    /\ nout = 0
    /\ fin = [k \in RunKeys |-> 0]
    /\ ann = [k \in RunKeys |-> 0]
    /\ calls = [p \in ProcIds |-> 0]
    /\ queues = <<>>
    /\ seen = <<>>
    /\ broken = FALSE
    /\ flt = NoFilter
    /\ timer = NoTimers
    /\ store = Clean
    /\ poll = NoPoll
    /\ sched = NoSchedule

\* TabManager._load_state
LoadState ==
    /\ tabs = <<>>
    /\ tabs' = LoadTabs(disk, 1, <<>>)
    /\ UNCHANGED <<nextTab, runs, procs, task, watch, journal, st, sp, ab, nout, fin, ann,
                   calls, queues, seen, disk, broken, flt, timer, store, poll, sched>>

\* TabManager.save_state
SaveState ==
    /\ tabs # <<>>
    /\ disk' = [i \in 1..Cardinality(DOMAIN tabs) |->
                  LET id == CHOOSE x \in DOMAIN tabs :
                                Cardinality({y \in DOMAIN tabs : y < x}) = i - 1
                  IN TabToDict(id, tabs[id])]
    /\ UNCHANGED <<tabs, nextTab, runs, procs, task, watch, journal, st, sp, ab, nout, fin, ann,
                   calls, queues, seen, broken, flt, timer, store, poll, sched>>

LoadNext == LoadState \/ SaveState

LoadSpec == LoadInit /\ [][LoadNext]_vars

\* ---------------------------------------------------------------- properties
\* what the engine's operations read and write, without the calls' own positions
Engine == <<tabs, runs, procs, task, watch, journal, fin, ann, calls, queues, broken>>

\* C1: of the startTest calls in flight on one Tab at most one has passed the
\* "already running?" test and is spawning capture processes; any other call
\* on that Tab has been turned away with the conflict.
C1_OneStartAdmitted ==
    \A r1, r2 \in StartIds :
        (r1 # r2 /\ st[r1].pc = "spawning" /\ st[r2].pc = "spawning")
        => st[r1].tab # st[r2].tab

\* Run r was started, all its processes exited on their own (no signal was
\* sent to any of them) and no stopTest or abortAll took the run
Natural(r) ==
    /\ st[r].pc = "returned"
    /\ \A i \in 1..NIf(r) :
          procs[<<r, i>>].st = "exited" /\ ~procs[<<r, i>>].term /\ ~procs[<<r, i>>].kill
    /\ \A c \in StopIds : sp[c].run # r
    /\ \A t \in DOMAIN ab.running : ab.running[t] # r

\* C2: when all N processes of a Run have exited on their own and every exit
\* has been handled, the Tab, as long as it shows that Run, is "completed" if
\* every exit code is 0 and "failed" otherwise, whatever the order of the exits.
C2_StatusAfterNaturalExits ==
    \A r \in StartIds :
        (/\ Natural(r)
         /\ \A i \in 1..NIf(r) : watch[<<r, i>>] = "done"
         /\ st[r].tab \in DOMAIN tabs
         /\ tabs[st[r].tab].run.id = r)
        => tabs[st[r].tab].status = StatusFor(FALSE, ReturnCodes(Cur, ProcsOf(r)))

\* C3: a stopTest that took a Run of which a process had already exited on its
\* own has, when it returns, left that Run finalized exactly once: one write of
\* the finish timestamp and one broadcast of the terminal status, by the exit
\* handler or by the stop, never both and never neither.
C3_StopFinalizesOnce ==
    \A c \in StopIds :
        (/\ sp[c].pc = "stopped"
         /\ \E i \in 1..NIf(sp[c].run) :
               LET p == procs[<<sp[c].run, i>>] IN p.st = "exited" /\ ~p.term /\ ~p.kill)
        => fin[2 * sp[c].run] = 1 /\ ann[2 * sp[c].run] = 1

\* C4: the journal holds exactly one start row and at most one stop row for
\* the capture id of every spawned process.
C4_OneStartOneStopRow ==
    \A p \in ProcIds :
        procs[p].st # "none" => journal[p].start = 1 /\ journal[p].stop <= 1

\* something that will still write the stop row of process p is under way: the
\* start call that spawned it, its watcher, the registered Run (for a later
\* stopTest or abortAll), or a stopTest or abortAll that took the Run
Tracked(p) ==
    \/ st[p[1]].pc = "spawning"
    \/ watch[p] = "waiting"
    \/ \E t \in DOMAIN runs : runs[t] = p[1]
    \/ \E c \in StopIds : sp[c].run = p[1] /\ sp[c].pc \in {"cancelwait", "termwait", "killwait"}
    \/ ab.pc = "sleep" /\ \E t \in DOMAIN ab.running : ab.running[t] = p[1]

\* C5: every spawned process gets its stop row: once no start call, watcher,
\* registered Run, stopTest or abortAll is left that would write it, the row
\* is in the journal.
C5_StopRowWritten ==
    \A p \in ProcIds :
        (procs[p].st # "none" /\ ~Tracked(p)) => journal[p].stop >= 1

\* C6: the finish timestamp of a Run object is written at most once.
C6_FinishWrittenOnce ==
    \A k \in RunKeys : fin[k] <= 1

\* C7: a startTest on a Tab whose Run is registered ends with the conflict and
\* changes nothing: Tab status, Run and log, the active-Run set, the journal
\* and the processes are as before.
C7_ConflictChangesNothing ==
    [][\A r \in StartIds :
          (/\ st[r].pc = "new"
           /\ st'[r].pc # "new"
           /\ st'[r].tab \in DOMAIN tabs
           /\ st'[r].tab \in DOMAIN runs)
          => (st'[r].pc = "conflict" /\ UNCHANGED Engine)]_vars

\* a startTest was turned away with the conflict
C7_ConflictRaised ==
    \E r \in StartIds : st[r].pc = "conflict" /\ st[r].tab \in DOMAIN runs

\* C8: when the spawn of the k-th process of a Run fails (k > 1), each of the
\* k-1 processes spawned before has been sent the kill, startTest fails, the
\* Tab is "failed" with a finish timestamp and its id is not in the active-Run set.
C8_SpawnFailure ==
    [][\A r \in StartIds :
          (st[r].pc # "failed" /\ st'[r].pc = "failed" /\ st'[r].k > 0)
          => LET t == st[r].tab
             IN /\ \A i \in 1..st'[r].k :
                      procs'[<<r, i>>].kill \/ procs'[<<r, i>>].st = "exited"
                /\ t \in DOMAIN tabs'
                /\ tabs'[t].status = "failed"
                /\ tabs'[t].run.finished
                /\ t \notin DOMAIN runs']_vars

\* C9: every Tab id in the active-Run set is in the Tab store.
C9_ActiveTabsExist ==
    \A t \in DOMAIN runs : t \in DOMAIN tabs

\* C10: deleteTab on a Tab in the active-Run set gives the conflict and changes
\* nothing; deleteTab on any other existing Tab (idle, completed, failed)
\* removes it; a removed Tab never comes back into the store.
C10_DeleteTab ==
    [][\A t \in TabIds :
          /\ (DeleteTab(t) /\ t \in DOMAIN runs)
             => (DeleteResult(t, GetRunningTabIds(Cur)) = "conflict" /\ UNCHANGED vars)
          /\ (DeleteTab(t) /\ t \in DOMAIN tabs /\ t \notin DOMAIN runs)
             => (DeleteResult(t, GetRunningTabIds(Cur)) = "deleted" /\ t \notin DOMAIN tabs')
          /\ (t <= nextTab /\ t \notin DOMAIN tabs) => t \notin DOMAIN tabs']_vars

\* the Tab of a finalized Run has been deleted
C10_FinishedTabDeleted ==
    \E r \in StartIds :
        /\ st[r].pc = "returned"
        /\ fin[2 * r] = 1
        /\ st[r].tab \notin DOMAIN tabs
        /\ st[r].tab \notin DOMAIN runs

\* C11: a stopTest on an existing Tab with no registered Run returns the Tab
\* ("not running") and changes nothing: no signal, no journal row, no change
\* of a Tab, a Run, a process or a watcher. The state after the call again has
\* the Tab without a registered Run, so every repetition does the same.
C11_StopNotRunning ==
    [][\A c \in StopIds, t \in TabIds :
          (StopBegin(c, t) /\ t \in DOMAIN tabs /\ t \notin DOMAIN runs)
          => /\ sp'[c].pc = "notrunning"
             /\ sp'[c].tab = t
             /\ sp'[c].run = 0
             /\ UNCHANGED Engine
             /\ t \in DOMAIN tabs' /\ t \notin DOMAIN runs']_vars

\* a stopTest found the Tab without a registered Run
C11_NotRunningReturned ==
    \E c \in StopIds : sp[c].pc = "notrunning" /\ sp[c].tab \in DOMAIN tabs

\* no stopTest and no abortAll has taken Run r
NotStopped(r) ==
    /\ \A c \in StopIds : sp[c].run # r
    /\ \A t \in DOMAIN ab.running : ab.running[t] # r

\* C12: while a process of a started Run has not exited and no stop was
\* requested, the Tab showing that Run is "running" and the Run has no finish
\* timestamp; once the Run is finalized after all exits, its exit_codes are
\* the processes' codes in interface order.
C12_RunningUntilLastExit ==
    \A r \in StartIds :
        (/\ st[r].pc = "returned"
         /\ NotStopped(r)
         /\ st[r].tab \in DOMAIN tabs
         /\ tabs[st[r].tab].run.id = r)
        => LET tab == tabs[st[r].tab]
               alive == \E i \in 1..NIf(r) : procs[<<r, i>>].st = "alive"
           IN /\ alive => (tab.status = "running" /\ ~tab.run.finished)
              /\ tab.run.finished => tab.run.exit_codes = ReturnCodes(Cur, ProcsOf(r))

\* the watchers recorded for the processes of Run r (InterfaceProcess.task)
TasksOf(r) == {task[<<r, i>>] : i \in 1..NIf(r)} \ {NoProc}

\* C13: a stopTest or abortAll that takes a Run cancels every recorded
\* watcher of it that has not reported, and a cancelled watcher stays
\* cancelled: it never runs the exit handler (the only step that writes a
\* watcher's stop row, exit log line or finalization marks the watcher done).
C13_CancelledNeverReports ==
    [][/\ \A p \in ProcIds : watch[p] = "cancelled" => watch'[p] = "cancelled"
       /\ \A c \in StopIds :
             (sp[c].run = 0 /\ sp'[c].run # 0)
             => \A w \in TasksOf(sp'[c].run) : watch[w] = "waiting" => watch'[w] = "cancelled"
       /\ (ab.pc = "new" /\ ab'.pc = "sleep")
             => \A t \in DOMAIN ab'.running :
                   \A w \in TasksOf(ab'.running[t]) : watch[w] = "waiting" => watch'[w] = "cancelled"]_vars

\* a watcher was cancelled after its process had exited and before it reported
C13_CancelledAfterExit ==
    \E p \in ProcIds : watch[p] = "cancelled" /\ procs[p].st = "exited" /\ ~procs[p].term

\* C14: the exit handler is invoked at most once for each process.
C14_HandlerOnce ==
    \A p \in ProcIds : calls[p] <= 1

\* C15: the retained log entries of a Tab carry consecutive sequence numbers
\* ending at the Tab's counter, none is evicted before the maximum is reached,
\* and never more than the maximum are retained.
C15_LogSequence ==
    \A t \in DOMAIN tabs :
        LET L == tabs[t].logs
            n == Len(L)
        IN /\ n <= MaxLogEntries
           /\ n = IF tabs[t].log_seq < MaxLogEntries THEN tabs[t].log_seq ELSE MaxLogEntries
           /\ \A i \in 1..n : L[i].seq = tabs[t].log_seq - n + i

C15_OldestEvicted ==
    \E t \in DOMAIN tabs : tabs[t].log_seq > MaxLogEntries /\ Len(tabs[t].logs) = MaxLogEntries

\* the sequence numbers of the log_entry events of Tab t in queue q, in queue order
LogSeqs(q, t) ==
    LET idx == {i \in 1..Len(q) : q[i].type = "log_entry" /\ q[i].tab = t}
    IN [i \in idx |-> q[i].seq]

Added(x) == SubSeq(queues'[x], Len(queues[x]) + 1, Len(queues'[x]))

\* C17: a broadcast puts the event on every queue with free capacity and drops
\* it only for full queues; a full queue never keeps the event from the others.
\* An output line is broadcast as its log_entry followed by tab_updated.
C17_Broadcast ==
    [][/\ \A p \in ProcIds : (WatcherOutput(p) /\ st[p[1]].tab \in DOMAIN tabs) =>
            \A x \in DOMAIN queues :
                LET t == st[p[1]].tab
                    evs == <<Event("log_entry", t, tabs'[t].log_seq), Event("tab_updated", t, 0)>>
                    free == QueueMax - Len(queues[x])
                IN /\ x \in DOMAIN queues'
                   /\ queues'[x] = queues[x] \o SubSeq(evs, 1, IF free < 2 THEN free ELSE 2)
       /\ (EngineVars' # EngineVars) =>
            \A x, y \in DOMAIN queues :
                /\ Len(queues'[x]) >= Len(queues[x])
                /\ SubSeq(queues'[x], 1, Len(queues[x])) = queues[x]
                /\ Len(Added(x)) < Len(Added(y)) =>
                      /\ Len(queues'[x]) = QueueMax
                      /\ Added(x) = SubSeq(Added(y), 1, Len(Added(x)))]_vars

\* subscriber x, subscribed since an earlier entry and full, has missed a log
\* entry that subscriber y holds
C17_DroppedForOne ==
    \E x, y \in DOMAIN queues : \E t \in TabIds :
        LET fx == LogSeqs(queues[x], t)
            fy == LogSeqs(queues[y], t)
        IN /\ Len(queues[x]) = QueueMax
           /\ DOMAIN fx # {}
           /\ \E j \in DOMAIN fy : /\ seen[x][t] < fy[j]
                                    /\ \A i \in DOMAIN fx : fx[i] < fy[j]

\* C18: after the load no Tab is starting or running: a Tab persisted with
\* one of these statuses is loaded idle and without Run, every other Tab
\* keeps its status and its Run.
C18_LoadCleansUp ==
    [][LoadState =>
        /\ \A t \in DOMAIN tabs' : tabs'[t].status \notin {"starting", "running"}
        /\ \A i \in DOMAIN disk :
              (disk[i].kind = "dict" /\ disk[i].id # 0
                 /\ \A j \in DOMAIN disk : j > i => disk[j].id # disk[i].id) =>
              LET d == disk[i]
                  tab == tabs'[d.id]
              IN IF d.status \in {"starting", "running"}
                 THEN tab.status = "idle" /\ tab.run = NoRun
                 ELSE /\ tab.status = (IF d.status = "absent" THEN "idle" ELSE d.status)
                      /\ tab.run.owner = 0 <=> d.run.kind # "dict"
                      /\ d.run.kind = "dict" => RunToDict(tab.run) = d.run]_vars

C18_RunningLoadedIdle ==
    \E i, j \in DOMAIN disk :
        /\ disk[i].status = "running" /\ disk[i].run.kind = "dict" /\ disk[i].id \in DOMAIN tabs
        /\ tabs[disk[i].id].status = "idle" /\ tabs[disk[i].id].run = NoRun
        /\ disk[j].status = "failed" /\ disk[j].run.kind = "dict" /\ disk[j].id \in DOMAIN tabs
        /\ tabs[disk[j].id].status = "failed" /\ tabs[disk[j].id].run.finished

\* the process a stopTest call is waiting for
Target(c) == <<sp[c].run, sp[c].i>>

\* C19: the termination of a process sends nothing to a process that has
\* already exited; otherwise SIGTERM comes first and SIGKILL only when the wait
\* after SIGTERM has timed out; when the wait after SIGKILL times out too, this
\* is logged and the termination goes on; the call returns in every case.
C19_Termination ==
    /\ [][\A c \in StopIds : sp'[c] # sp[c] =>
            /\ \A p \in ProcIds :
                  /\ procs[p].st = "exited" => procs'[p] = procs[p]
                  /\ (procs'[p].term /\ ~procs[p].term) =>
                        /\ ~procs[p].kill
                        /\ sp'[c].pc = "termwait" /\ p = <<sp'[c].run, sp'[c].i>>
                  /\ (procs'[p].kill /\ ~procs[p].kill) =>
                        /\ procs[p].term /\ procs[p].st = "alive"
                        /\ sp[c].pc = "termwait" /\ p = Target(c)
                        /\ sp'[c].pc = "killwait"
            /\ (sp'[c].pc = "termwait" /\ (sp[c].pc # "termwait" \/ sp'[c].i # sp[c].i)) =>
                  /\ procs[<<sp'[c].run, sp'[c].i>>].st = "alive"
                  /\ procs'[<<sp'[c].run, sp'[c].i>>].term
            /\ (sp[c].pc = "killwait" /\ procs[Target(c)].st = "alive") =>
                  /\ procs'[Target(c)] = procs[Target(c)]
                  /\ sp'[c].pc # "killwait" /\ (sp'[c].pc = "termwait" => sp'[c].i > sp[c].i)
                  /\ sp[c].tab \in DOMAIN tabs =>
                        tabs'[sp[c].tab].log_seq > tabs[sp[c].tab].log_seq]_vars
    /\ \A c \in StopIds :
          (sp[c].pc \in {"cancelwait", "termwait", "killwait"}) ~> (sp[c].pc \in {"stopped", "notfound"})

C19_UnresponsiveReturned ==
    \E c \in StopIds :
        /\ sp[c].pc = "stopped"
        /\ \E i \in 1..NIf(sp[c].run) :
              LET p == <<sp[c].run, i>>
              IN procs[p].term /\ procs[p].kill /\ procs[p].st = "alive"

\* C20: a failing journal write never aborts the Run: a start call that met
\* one still ends with the Run registered and the Tab running, and a stop or
\* an exit handling that met one still finalizes the Tab.
C20_JournalFailureHarmless ==
    /\ \A r \in StartIds :
          st[r].pc = "error" =>
            /\ st[r].tab \in DOMAIN runs /\ runs[st[r].tab] = r
            /\ st[r].tab \in DOMAIN tabs => tabs[st[r].tab].status = "running"
    /\ \A c \in StopIds :
          (sp[c].pc = "error" /\ sp[c].tab \in DOMAIN tabs) =>
            tabs[sp[c].tab].status \in Terminal /\ tabs[sp[c].tab].run.finished
    /\ \A r \in StartIds :
          (/\ Natural(r)
           /\ \A i \in 1..NIf(r) : watch[<<r, i>>] = "done"
           /\ st[r].tab \in DOMAIN tabs
           /\ tabs[st[r].tab].run.id = r)
          => tabs[st[r].tab].status \in Terminal /\ tabs[st[r].tab].run.finished

\* C21: abortAll never raises: once it has ended it has returned normally and
\* every process of every Run it took has been sent the termination signal
\* unless it had exited before.
C21_AbortNeverRaises ==
    ab.pc \in {"done", "error"} =>
        /\ ab.pc = "done"
        /\ \A t \in DOMAIN ab.running : \A i \in 1..NIf(ab.running[t]) :
              LET p == <<ab.running[t], i>>
              IN procs[p].st = "alive" => procs[p].term

\* C22: an operation given a Tab id that is not in the Tab store (getTab,
\* updateTab, deleteTab, getLogs, startTest, stopTest) raises not-found and
\* changes nothing.
C22_UnknownTab ==
    [][\A t \in TabIds : t \notin DOMAIN tabs =>
          /\ GetTab(t) => (GetTabResult(t) = "notfound" /\ UNCHANGED Engine)
          /\ GetLogs(t) => (GetLogsResult(t) = "notfound" /\ UNCHANGED Engine)
          /\ UpdateTab(t) => (UpdateTabResult(t) = "notfound" /\ UNCHANGED Engine)
          /\ DeleteTab(t) =>
                (DeleteResult(t, GetRunningTabIds(Cur)) = "notfound" /\ UNCHANGED Engine)
          /\ \A r \in StartIds, prof \in Profiles, o \in Outcomes :
                StartBegin(r, t, prof, o) => (st'[r].pc = "notfound" /\ UNCHANGED Engine)
          /\ \A c \in StopIds :
                StopBegin(c, t) => (sp'[c].pc = "notfound" /\ UNCHANGED Engine)]_vars

\* only the three TSN flags are set in the settings
OnlyTsnFlags(g) ==
    /\ ~g.tsn8021as /\ ~g.ptpStatus /\ ~g.qbuPreemption
    /\ g.filterProtocols = <<>> /\ g.filterHosts = "" /\ g.filterPorts = ""
    /\ g.filterVlanId = "" /\ g.tsnPriorityFilter = "" /\ g.bpfFilter = ""

\* C23: with only the TSN flags set the filter is the expression of the table:
\* gPTP or PTP-over-UDP for both without VLAN, VLAN-tagged gPTP whenever gPTP
\* and VLAN are set, gPTP alone, PTP-over-UDP for PTP only, "vlan" for VLAN
\* only, and the empty filter for no flag.
C23_TsnFilterTable ==
    (flt.built /\ OnlyTsnFlags(flt.settings)) =>
        LET g == flt.settings
            sync == g.captureTsnSync
            ptp == g.capturePtp
            vlan == g.captureVlanTagged
        IN /\ (sync /\ ptp /\ ~vlan) =>
                 flt.result = <<"(ether proto 0x88f7 or (udp port 319 or udp port 320))">>
           /\ (sync /\ vlan) => flt.result = <<"(vlan and ether proto 0x88f7)">>
           /\ (sync /\ ~ptp /\ ~vlan) => flt.result = <<"ether proto 0x88f7">>
           /\ (~sync /\ ptp /\ ~vlan) => flt.result = <<"(udp port 319 or udp port 320)">>
           /\ (~sync /\ ~ptp /\ vlan) => flt.result = <<"vlan">>
           /\ (~sync /\ ~ptp /\ ~vlan) => flt.result = <<>>

C23_AllThreeFlagsBuilt ==
    /\ flt.built /\ OnlyTsnFlags(flt.settings)
    /\ flt.settings.captureTsnSync /\ flt.settings.capturePtp /\ flt.settings.captureVlanTagged
    /\ flt.result = <<"(vlan and ether proto 0x88f7)">>

\* C24: when a stopTest that found a Run returns, the Tab's Run has its finish
\* timestamp, the Tab is completed or failed and is out of the active-Run set;
\* the Tab then leaves that status only by a startTest requested afterwards.
C24_StopFinalizes ==
    [][\A c \in StopIds :
          LET t == sp'[c].tab
          IN /\ (sp[c].pc # "stopped" /\ sp'[c].pc = "stopped" /\ t \in DOMAIN tabs') =>
                  /\ tabs'[t].run.finished
                  /\ tabs'[t].status \in Terminal
                  /\ t \notin DOMAIN runs'
             /\ (/\ sp[c].pc = "stopped"
                 /\ t \in DOMAIN tabs /\ t \in DOMAIN tabs'
                 /\ tabs[t].status \in Terminal
                 /\ tabs'[t].status # tabs[t].status) =>
                  \E r \in StartIds : st[r].pc = "new" /\ st'[r].pc # "new" /\ st'[r].tab = t]_vars

Registered(r) == st[r].tab \in DOMAIN runs /\ runs[st[r].tab] = r
AllExited(r) == \A i \in 1..NIf(r) : procs[<<r, i>>].st = "exited"

\* C25: when every process of a registered Run has exited on its own, the Tab
\* eventually is completed or failed and its id is out of the active-Run set.
C25_NaturalExitFinalizes ==
    \A r \in StartIds :
        (st[r].pc = "returned" /\ Registered(r) /\ AllExited(r)) ~>
            (/\ st[r].tab \in DOMAIN tabs
             /\ tabs[st[r].tab].status \in Terminal
             /\ st[r].tab \notin DOMAIN runs)

\* the status changes of the Tab state machine
StatusSteps ==
    {<<"idle", "starting">>, <<"completed", "starting">>, <<"failed", "starting">>,
     <<"starting", "running">>, <<"starting", "failed">>,
     <<"running", "completed">>, <<"running", "failed">>}

\* a change of status from a to b, or none
StatusStep(a, b) == a = b \/ <<a, b>> \in StatusSteps

\* C26: every change of a Tab's status is a step of the state machine (idle or
\* terminal to starting, starting to running or failed, running to completed or
\* failed), and no Tab ever has the status cancelled. A startTest that fails
\* before its first suspension point changes the status twice in one step.
C26_StatusMachine ==
    [][\A t \in DOMAIN tabs \cap DOMAIN tabs' :
          LET a == tabs[t].status
              b == tabs'[t].status
          IN /\ IF \E r \in StartIds : /\ st[r].pc = "new"
                                        /\ st'[r].pc \in {"spawning", "failed"}
                                        /\ st'[r].tab = t
                THEN StatusStep(a, "starting") /\ StatusStep("starting", b)
                ELSE StatusStep(a, b)
             /\ b # "cancelled"]_vars

\* the stop call that the timer of start call r has issued
TimerCalls(r) == IF timer[r].pc = "stopping" THEN {timer[r].call} ELSE {}

\* C27: the duration timer armed for Run R issues a stop only when R is still
\* the Tab's unfinished, registered Run, the stop it issues is a stop of R, and
\* no step of the timer or of that stop signals a process of another Run.
C27_TimerStopsOwnRun ==
    /\ [][\A r \in StartIds :
            /\ (timer[r].pc = "armed" /\ timer'[r].pc = "stopping") =>
                  /\ TimerMayStop(Cur, st[r].tab, r)
                  /\ runs[st[r].tab] = r
                  /\ sp'[timer'[r].call].run = r
            /\ (timer[r].pc = "armed" /\ timer'[r].pc = "returned") =>
                  /\ procs' = procs /\ runs' = runs /\ sp' = sp /\ tabs' = tabs
            /\ (timer'[r] # timer[r] \/ \E c \in TimerCalls(r) : sp'[c] # sp[c]) =>
                  \A p \in ProcIds :
                     (procs'[p].term # procs[p].term \/ procs'[p].kill # procs[p].kill)
                        => p[1] = r]_vars
    /\ [](\A r \in StartIds : \A c \in TimerCalls(r) : sp[c].run = r)

\* the timer of a stopped Run fired when a later Run of the same Tab was the
\* Tab's Run, and returned: that Run is registered, its process alive and unsignalled
C27_StaleTimerReturned ==
    \E r, q \in StartIds :
        /\ r # q /\ timer[r].pc = "returned" /\ timer[r].run = q
        /\ \E c \in StopIds : sp[c].run = r /\ sp[c].pc = "stopped"
        /\ st[q].tab = st[r].tab /\ st[q].tab \in DOMAIN runs /\ runs[st[q].tab] = q
        /\ procs[<<q, 1>>].st = "alive" /\ ~procs[<<q, 1>>].term

\* C28: exit handling for a process of Run R changes the status and the finish
\* timestamp only of a Tab whose Run is R, writes no other Run's finish
\* timestamp, and deregisters only R.
C28_ExitHandlingOwnRun ==
    [][\A p \in ProcIds : calls'[p] # calls[p] =>
          LET r == p[1]
              t == st[r].tab
          IN /\ (/\ t \in DOMAIN tabs
                 /\ \/ tabs'[t].status # tabs[t].status
                    \/ tabs'[t].run.finished # tabs[t].run.finished) =>
                   /\ tabs[t].run.owner # 0 /\ tabs[t].run.id = r
                   /\ tabs'[t].run.id = r
             /\ \A k \in RunKeys : fin'[k] # fin[k] => k = RunKey(RealRun(r))
             /\ runs' # runs => (t \in DOMAIN runs /\ runs[t] = r /\ runs' = Pop(runs, t))]_vars

\* the exit of a process of an earlier Run was handled while a later Run was
\* the Tab's Run: that Run is still registered, unfinished and running
C28_HandledBesideLaterRun ==
    \E p \in ProcIds, q \in StartIds :
        LET t == st[q].tab
        IN /\ p[1] # q /\ st[p[1]].tab = t
           /\ calls[p] = 1 /\ watch[p] = "done"
           /\ t \in DOMAIN tabs /\ t \in DOMAIN runs /\ runs[t] = q
           /\ tabs[t].run.id = q /\ ~tabs[t].run.finished /\ tabs[t].status = "running"
           /\ \A i \in 1..NIf(q) : procs[<<q, i>>].st = "alive"
           /\ Len(tabs[t].logs) > 0 /\ tabs[t].logs[Len(tabs[t].logs)].msg = "exited"

\* a step of stop call c that has taken a Run
StopStep(c) == sp'[c] # sp[c] /\ sp'[c].run # 0

\* C29: in a stopTest of Run R no sibling process is signalled while the
\* watcher of some sibling is still pending uncancelled; the stop rows are
\* written only when every sibling has exited or has been through the
\* termination protocol; and no watcher runs exit handling for a process that
\* the stop has signalled.
C29_CancelSignalRows ==
    [][/\ \A c \in StopIds : StopStep(c) =>
             LET r == sp'[c].run
             IN /\ (\E p \in ProcIds : procs'[p].term /\ ~procs[p].term) =>
                      \A i \in 1..NIf(r) : watch'[<<r, i>>] # "waiting"
                /\ (\E i \in 1..NIf(r) : journal'[<<r, i>>].stop # journal[<<r, i>>].stop) =>
                      \A i \in 1..NIf(r) :
                         procs'[<<r, i>>].st = "exited" \/ procs'[<<r, i>>].term
       /\ \A p \in ProcIds : calls'[p] # calls[p] =>
             ~(procs[p].term /\ \E c \in StopIds : sp[c].run = p[1])]_vars

\* the watcher of p called the exit handler a second time, with the error
Reported(p) == calls'[p] > 1

\* C30: when exit handling finalizes a Run, the Tab becomes failed if the exit
\* code of any sibling is non-zero or the watcher of any sibling reported an
\* error, and completed otherwise.
C30_StatusOnFinalize ==
    [][\A t \in DOMAIN tabs \cap DOMAIN tabs' :
          (/\ \E p \in ProcIds : calls'[p] # calls[p]
           /\ ~tabs[t].run.finished /\ tabs'[t].run.finished) =>
             LET r == tabs'[t].run.id
                 bad == \E i \in 1..NIf(r) : procs[<<r, i>>].rc # 0 \/ Reported(<<r, i>>)
             IN tabs'[t].status = IF bad THEN "failed" ELSE "completed"]_vars

\* C31: every change of a Tab's status or Run is made with the Tab store's lock
\* held and is persisted before that lock is released: no status or Run has
\* been written without the lock, and at no suspension point does a Tab in
\* memory differ from its persisted snapshot.
C31_LockedPersistedWrites ==
    ~store.bare /\ ~store.dirty /\ ~store.lock

\* the messages of the log entries that a step appended to Tab t and that are
\* still retained
AppendedMsgs(t) ==
    {tabs'[t].logs[i].msg : i \in {j \in 1..Len(tabs'[t].logs) : tabs'[t].logs[j].seq > tabs[t].log_seq}}

C33_IncrementalPolling ==
    /\ [][\A t \in DOMAIN tabs : PollLogs(t) =>
            LET n == Len(poll.got)
                new == [i \in 1..(Len(poll'.got) - n) |-> poll'.got[n + i]]
                since == IF poll.after = None THEN 0 ELSE poll.after
            IN /\ SubSeq(poll'.got, 1, n) = poll.got
               /\ {new[i] : i \in DOMAIN new}
                     = {tabs[t].logs[j].seq : j \in 1..Len(tabs[t].logs)} \ (0..since)
               /\ \A i, j \in DOMAIN new : i < j => new[i] < new[j]
               /\ poll'.after = tabs[t].log_seq]_vars
    /\ [](~poll.late =>
            poll.got = [i \in 1..(IF poll.after = None THEN 0 ELSE poll.after) |-> i])

\* the client has received the entries 1 to 6, more than the log retains, in
\* several calls, and no entry was evicted before it was fetched
C33_PolledPastEviction ==
    /\ ~poll.late
    /\ poll.got = <<1, 2, 3, 4, 5, 6>>
    /\ \E t \in DOMAIN tabs : tabs[t].log_seq = 6 /\ Len(tabs[t].logs) = MaxLogEntries

\* process p is in the hands of a call that has not returned: the startTest
\* that spawned it, or a stopTest or abortAll that took its Run
InHand(p) ==
    \/ st[p[1]].pc = "spawning"
    \/ \E c \in StopIds : sp[c].run = p[1] /\ sp[c].pc \in {"cancelwait", "termwait", "killwait"}
    \/ ab.pc = "sleep" /\ \E t \in DOMAIN ab.running : ab.running[t] = p[1]

\* C34: no capture process is orphaned: a spawned process that has not exited
\* and has been sent no signal belongs to the Run registered for its Tab, or
\* is in the hands of the startTest, stopTest or abortAll call working on it.
C34_NoOrphan ==
    \A p \in ProcIds :
        (procs[p].st = "alive" /\ ~procs[p].term /\ ~procs[p].kill)
        => (Registered(p[1]) \/ InHand(p))

\* no engine operation on Tab t is between its first and its last step: no
\* startTest or stopTest of t is suspended and no abortAll is under way (an
\* exit handling is a single step)
Quiet(t) ==
    /\ \A r \in StartIds : st[r].tab = t => st[r].pc # "spawning"
    /\ \A c \in StopIds : sp[c].tab = t => sp[c].pc \notin {"cancelwait", "termwait", "killwait"}
    /\ ab.pc # "sleep"

\* C35: whenever no engine operation on a Tab is in progress, the Tab is
\* running if and only if its id is in the active-Run set, and then its Run
\* has no finish timestamp.
C35_RunningIffRegistered ==
    \A t \in DOMAIN tabs :
        Quiet(t) =>
            /\ tabs[t].status = "running" <=> t \in DOMAIN runs
            /\ tabs[t].status = "running" => (tabs[t].run.owner # 0 /\ ~tabs[t].run.finished)

\* C36: a Tab becomes completed only when every sibling process of its Run has
\* exited with code 0; a sibling without exit code never yields completed.
C36_CompletedOnlyAllZero ==
    [][\A t \in DOMAIN tabs \cap DOMAIN tabs' :
          (tabs[t].status # "completed" /\ tabs'[t].status = "completed") =>
             LET r == tabs'[t].run.id
             IN /\ r \in StartIds
                /\ \A i \in 1..NIf(r) :
                      procs'[<<r, i>>].st = "exited" /\ procs'[<<r, i>>].rc = 0]_vars

\* C37: when a startTest returns with its Run registered, every process of the
\* Run has its own watcher recorded, duplicate interface names included, and
\* a stopTest that takes the Run cancels the pending watcher of every sibling.
C37_WatcherPerProcess ==
    [][/\ \A r \in StartIds :
             (st[r].pc = "spawning" /\ st'[r].pc = "returned") =>
                \A i \in 1..NIf(r) : task'[<<r, i>>] = <<r, i>>
       /\ \A c \in StopIds :
             (sp[c].run = 0 /\ sp'[c].run # 0) =>
                \A i \in 1..NIf(sp'[c].run) :
                   watch[<<sp'[c].run, i>>] = "waiting" => watch'[<<sp'[c].run, i>>] = "cancelled"]_vars

\* C38: abortAll empties the active-Run set and changes no Tab: status, Run
\* and log of every Tab are the same after each of its steps as before, so a
\* Tab whose Run it took stays running, without finish timestamp.
C38_AbortLeavesTabs ==
    [][ab' # ab =>
          /\ tabs' = tabs
          /\ store' = store
          /\ ab.pc = "new" => (runs' = <<>> /\ ab'.running = runs)
          /\ ab.pc = "sleep" => runs' = runs]_vars

\* abortAll has returned; the Tab whose Run it took is still running and its
\* Run has no finish timestamp, but the Tab is not in the active-Run set and
\* the process has exited
C38_RunningAfterAbort ==
    /\ ab.pc = "done"
    /\ \E t \in DOMAIN ab.running :
          /\ t \in DOMAIN tabs /\ t \notin DOMAIN runs
          /\ tabs[t].status = "running"
          /\ tabs[t].run.id = ab.running[t] /\ ~tabs[t].run.finished
          /\ \A i \in 1..NIf(ab.running[t]) : procs[<<ab.running[t], i>>].st = "exited"

\* the Tabs that the operations of a step work on: the Tab of a startTest or
\* stopTest call that moved, of a watcher that reported, was cancelled or
\* logged an output line, and of a duration timer that fired
Acting ==
    {st'[r].tab : r \in {x \in StartIds : st'[x] # st[x]}}
    \cup {sp'[c].tab : c \in {x \in StopIds : sp'[x] # sp[x]}}
    \cup {st[p[1]].tab : p \in {x \in ProcIds : watch'[x] # watch[x] \/ calls'[x] # calls[x]
                                                  \/ (nout' # nout /\ WatcherOutput(x))}}
    \cup {st[r].tab : r \in {x \in StartIds : timer'[x] # timer[x]}}

RunInFlight(r) ==
    /\ sched.exec[r] # "none"
    /\ st[r].tab \in DOMAIN tabs
    /\ tabs[st[r].tab].status \in {"starting", "running"}

\* C40: one schedule never has two of its runs in flight: from the moment a
\* trigger or timer firing was accepted until its run has finished, no second
\* Tab is created and started for the schedule.
C40_OneRunInFlight ==
    Cardinality({r \in StartIds : RunInFlight(r)}) <= 1

====
